---------------------------- MODULE Spec2Model ----------------------------
(***************************************************************************)
(* A model of the IMAP server front-end: the connection driver             *)
(* (client.handle), the command parser's dispatch (parser.next), the       *)
(* command executors (command.go) and the session (session.go), run        *)
(* against the Mailstore and AuthStore interfaces.                         *)
(*                                                                         *)
(* Strings that the code takes apart (mailbox names, references, list      *)
(* patterns) are sequences of one-character strings, so that pathToSlice   *)
(* is computed as the code computes it.  A command line is the sequence    *)
(* of astring tokens the lexer would hand to the parser.                   *)
(***************************************************************************)
EXTENDS Integers, Sequences, FiniteSets, TLC

VARIABLES
    listener,      \* listener.encryption of the listener that accepted the connection
    pc,            \* position of client.handle
    st,            \* session.st
    mailbox,       \* session.mailbox (NoMailbox when nil)
    encryption,    \* session.encryption
    reader,        \* what parser.lexer.reader reads from
    line,          \* the line parser.next read last
    command,       \* the command returned by parser.next, with its own fields
    response,      \* the response returned by the last execute (or fatalResponse)
    wrote,         \* whether response.write succeeded for that response
    calls,         \* backend calls made by the last execute, in order, with
                   \* what each returned
    tlsStarted,    \* history: a STARTTLS has been executed on this session
    bufin,         \* the lines the connection's first (plaintext) reader has
                   \* buffered and not yet handed to the lexer
    db,            \* notmuch: the messages of the database, each known by
                   \* its date
    midToUidMap,   \* NotmuchMailstore.midToUidMap
    uidToMidMap,   \* NotmuchMailstore.uidToMidMap
    lastOp,        \* the mailstore operation performed last
    lastUids,      \* history: the UID every message got from the last UID
                   \* lookup, if no mutating call was made since
    appended,      \* history: the messages appended since the last UID lookup
    first,         \* history: what a remembered SELECT reported and what the
                   \* UIDs denoted then
    latest,        \* history: the same of the latest SELECT
    lastFlag,      \* history: how the last Flag ended
    lastFetch,     \* history: what the last operation returned, if a Fetch
    done,          \* Server.done is closed
    loopPc,        \* position of runListener's select loop
    acceptorPc,    \* position of runListener's accepting goroutine
    clientNumber,  \* clientNumber of the accepting goroutine
    newClient,     \* the client the accepting goroutine is sending on newClient
    spawning,      \* the client the select loop has received
    handled,       \* history: the clients whose handle was started
    maxClients,    \* config.maxClients
    handling,      \* the clients whose handle is running
    searchLine,    \* the tokens of the arguments of a SEARCH
    searchPc,      \* how far the SEARCH has come
    searchArgs,    \* what aggregateSearchArguments returned
    searchQuery,   \* what parseSearchArguments returned
    lexIn,         \* the lexer on its own: the bytes of its reader, and what
                   \* they were made of
    lexPc,         \* whether the lexer has run
    lexOut,        \* what the lexer's function returned
    seqIn,         \* the sequence-set evaluator on its own: a sequence set
                   \* and the maximum it is evaluated against
    seqOut,        \* what toList returned
    backendPc,     \* notmuch: where each session is in its call of the mailstore
    backendCall,   \* the call each session is making
    saw,           \* what the search of each session's uidToMid or midToUid saw
    rwmutex,       \* NotmuchMailstore.l
    cacheMutex,    \* NotmuchMailstore.cache
    caches,        \* uidToMidMap and midToUidMap, each known by the number of
                   \* mutations its search saw
    inFlight,      \* the notmuch subprocesses that run
    version,       \* the mutations made to the database
    released,      \* history: the mutations made when nm.l was last unlocked
    obtained,      \* history: the map a session got last from uidToMid or
                   \* midToUid, and the value of released then
    leaks,         \* history: the calls that returned with nm.l still held
    panicked,      \* the server has panicked
    io             \* history: what went over the connection for the command
                   \* read last: a "literal" event when literalRest (or the
                   \* newLine of a continued SEARCH) read a literal, with the
                   \* number n of bytes it asked for, and a "continuation"
                   \* event when a continuation response was written

sessionVars == <<listener, pc, st, mailbox, encryption, reader, line, command,
                 response, wrote, calls, tlsStarted, bufin, io>>

storeVars == <<db, midToUidMap, uidToMidMap, lastOp, lastUids, appended, first, latest,
               lastFlag, lastFetch>>

serverVars == <<done, loopPc, acceptorPc, clientNumber, newClient, spawning, handled,
                maxClients, handling>>

searchVars == <<searchLine, searchPc, searchArgs, searchQuery>>

lexerVars == <<lexIn, lexPc, lexOut>>

sequenceVars == <<seqIn, seqOut>>

backendVars == <<backendPc, backendCall, saw, rwmutex, cacheMutex, caches, inFlight,
                 version, released, obtained, leaks, panicked>>

vars == <<sessionVars, storeVars, serverVars, searchVars, lexerVars, sequenceVars,
      backendVars>>

\* what the steps of one part of the program leave alone
notSessionVars == <<storeVars, serverVars, searchVars, lexerVars, sequenceVars,
      backendVars>>

notStoreVars == <<sessionVars, serverVars, searchVars, lexerVars, sequenceVars,
      backendVars>>

notServerVars == <<sessionVars, storeVars, searchVars, lexerVars, sequenceVars,
      backendVars>>

notSearchVars == <<sessionVars, storeVars, serverVars, lexerVars, sequenceVars,
      backendVars>>

notLexerVars == <<sessionVars, storeVars, serverVars, searchVars, sequenceVars,
      backendVars>>

notSequenceVars == <<sessionVars, storeVars, serverVars, searchVars, lexerVars,
      backendVars>>

notBackendVars == <<sessionVars, storeVars, serverVars, searchVars, lexerVars,
      sequenceVars>>

---------------------------------------------------------------------------
(* session.go: state and encryptionLevel *)

notAuthenticated == 0
authenticated == 1
selected == 2

unencryptedLevel == 0
starttlsLevel == 1
tlsLevel == 2

(* command.go: pathDelimiter *)
pathDelimiter == "/"

---------------------------------------------------------------------------
(* Strings as sequences of characters *)

RECURSIVE Str(_)
\* string(bytes): the characters of cs as one string
Str(cs) == IF cs = <<>> THEN "" ELSE Head(cs) \o Str(Tail(cs))

RECURSIVE Split(_, _)
\* strings.Split(path, sep): always at least one element
Split(cs, sep) ==
    IF cs = <<>> THEN <<"">>
    ELSE IF Head(cs) = sep THEN <<"">> \o Split(Tail(cs), sep)
    ELSE LET rest == Split(Tail(cs), sep)
         IN  <<Head(cs) \o Head(rest)>> \o Tail(rest)

RECURSIVE Join(_, _)
\* strings.Join(elems, sep)
Join(elems, sep) ==
    IF elems = <<>> THEN ""
    ELSE IF Len(elems) = 1 THEN elems[1]
    ELSE elems[1] \o sep \o Join(Tail(elems), sep)

\* pathToSlice converts a path to a slice of strings
pathToSlice(path) ==
    LET ret0 == Split(path, pathDelimiter)
        \* Remove leading blank
        lead == IF ret0[1] = ""
                THEN (IF Len(ret0) > 1 THEN [empty |-> FALSE, ret |-> Tail(ret0)]
                      ELSE [empty |-> TRUE, ret |-> <<>>])
                ELSE [empty |-> FALSE, ret |-> ret0]
    IN  IF lead.empty THEN <<>>
        ELSE LET ret == lead.ret
                 lastIndex == Len(ret)
             IN  IF ret[lastIndex] = ""
                 THEN (IF Len(ret) > 1 THEN SubSeq(ret, 1, lastIndex - 1) ELSE <<>>)
                 ELSE ret

---------------------------------------------------------------------------
(* The response builder, as command.go and client.handle use it and as     *)
(* the specification's Response record describes it.                        *)

createResponse(tag, condition, message) ==
    [tag |-> tag, condition |-> condition, message |-> message,
     untagged |-> <<>>, closeConnection |-> FALSE, done |-> TRUE,
     bufReplacement |-> FALSE]

ok(tag, message) == createResponse(tag, "OK", message)

bad(tag, message) == createResponse(tag, "BAD", message)

no(tag, message) == createResponse(tag, "NO", message)

\* a continuation does not complete the command
continuation(message) ==
    [createResponse("+", "", message) EXCEPT !.done = FALSE]

empty == createResponse("", "", "")

extra(resp, text) == [resp EXCEPT !.untagged = Append(@, text)]

shouldClose(resp) == [resp EXCEPT !.closeConnection = TRUE]

replaceBuffers(resp) == [resp EXCEPT !.bufReplacement = TRUE]

\* fatalResponse(w, err) has no tag to answer with
fatalResponse(message) == bad("*", message)

\* the value of response before any command has been answered
NoResponse == createResponse("", "none", "")

---------------------------------------------------------------------------
(* The Mailstore interface, over a small fixed mailbox tree.  Every call    *)
(* may fail: failing is the set of operations whose backend call returns    *)
(* an error while the current command executes.                             *)

BackendError == "backend error"

\* total, recent, first unseen, next uid and unseen count of every mailbox
TotalMessagesValue == 8
RecentMessagesValue == 4
FirstUnseenValue == 4
NextUidValue == 9
CountUnseenValue == 9

\* the mailboxes of the store: two at the root, one below "a"
MailboxTree == {<<"a">>, <<"b">>, <<"a", "c">>}

NilMailbox == [nil |-> TRUE, Name |-> "", Path |-> <<>>, Id |-> "",
               UidValidity |-> 0, Flags |-> 0]

MailboxAt(path) ==
    [nil |-> FALSE, Name |-> path[Len(path)], Path |-> path,
     Id |-> Join(path, pathDelimiter), UidValidity |-> 1, Flags |-> 0]

\* GetMailbox gets IMAP mailbox information; nil if the mailbox does not exist
GetMailbox(path, failing) ==
    IF "GetMailbox" \in failing THEN [err |-> TRUE, mbox |-> NilMailbox]
    ELSE IF path \in MailboxTree THEN [err |-> FALSE, mbox |-> MailboxAt(path)]
    ELSE [err |-> FALSE, mbox |-> NilMailbox]

\* GetMailboxes gets the list of mailboxes at the given path
GetMailboxes(path, failing) ==
    IF "GetMailboxes" \in failing THEN [err |-> TRUE, all |-> <<>>]
    ELSE IF path = <<>>
         THEN [err |-> FALSE, all |-> <<MailboxAt(<<"a">>), MailboxAt(<<"b">>)>>]
    ELSE IF path = <<"a">>
         THEN [err |-> FALSE, all |-> <<MailboxAt(<<"a", "c">>)>>]
    ELSE [err |-> FALSE, all |-> <<>>]

\* the int64-returning operations of the interface
MailstoreCount(op, value, failing) ==
    IF op \in failing THEN [err |-> TRUE, n |-> 0] ELSE [err |-> FALSE, n |-> value]

\* the operations of the interface that a command may find failing
MailstoreOps == {"GetMailbox", "GetMailboxes", "FirstUnseen", "TotalMessages",
                 "RecentMessages", "NextUid", "CountUnseen", "AppendMessage",
                 "Search", "Fetch"}

\* at most one kind of backend operation fails during one command
Failures == {{}} \cup {{op} : op \in MailstoreOps}

---------------------------------------------------------------------------
(* The AuthStore interface: one account; the backend may be unreachable,    *)
(* and then reports no success together with its error.                     *)

Credentials == {<<"u", "p">>}

Authenticate(username, plainPassword, backendUp) ==
    IF ~backendUp THEN [success |-> FALSE, err |-> TRUE]
    ELSE [success |-> <<username, plainPassword>> \in Credentials, err |-> FALSE]

---------------------------------------------------------------------------
(* Commands.  A command value carries the fields of its Go struct; fields a *)
(* command does not have keep their zero value.                             *)

Command(kind, tag) ==
    [kind |-> kind, tag |-> tag, cmd |-> "", uid |-> FALSE, args |-> <<>>,
     params |-> <<>>, length |-> 0, valid |-> TRUE, ready |-> FALSE,
     continuing |-> FALSE]

NoCommand == Command("none", "")

\* the session fields an executor reads and writes
Session == [st |-> st, mailbox |-> mailbox, encryption |-> encryption]

\* the record of the mailstore calls ops, made while the operations of
\* failing return an error
Called(ops, failing) ==
    [i \in 1..Len(ops) |->
        [op |-> ops[i], err |-> ops[i] \in failing, success |-> ops[i] \notin failing]]

\* what one call of execute yields: the response, the session and the command
\* as it leaves them, and the backend calls it made (for the mailstore, the
\* names of the operations: Recorded adds what each returned)
Ret(resp, sess, c, made) ==
    [response |-> resp, sess |-> sess, cmd |-> c, calls |-> made, panic |-> FALSE,
     literal |-> 0]

\* execute asked the connection for the n bytes of a literal before it returned
ReadLiteral(r, n) == [r EXCEPT !.literal = n]

\* the events of the connection
LiteralEvent(n) == [ev |-> "literal", n |-> n]

ContinuationEvent == [ev |-> "continuation", n |-> 0]

\* execute did not return: nil dereference or unbounded recursion
Panic(sess, c, made) ==
    [response |-> NoResponse, sess |-> sess, cmd |-> c, calls |-> made, panic |-> TRUE,
     literal |-> 0]

Recorded(r, failing) == [r EXCEPT !.calls = Called(@, failing)]

---------------------------------------------------------------------------
(* command.go: helper functions *)

\* internalError logs an error and returns a response
internalError(tag, commandName, errText) ==
    shouldClose(no(tag, commandName \o " " \o errText))

\* mustAuthenticate: the command is invalid because the user has not authenticated
mustAuthenticate(tag, commandName) == bad(tag, commandName \o " not authenticated")

\* mustSelect: the command is invalid because no mailbox is selected
mustSelect(tag, commandName) == bad(tag, commandName \o " not selected")

\* joinMailboxFlags, for a mailbox with at most one flag set
joinMailboxFlags(m) == IF m.Flags = 0 THEN "" ELSE "Noinferiors"

---------------------------------------------------------------------------
(* command.go: NOOP, CHECK, CAPABILITY, STARTTLS, LOGIN, LOGOUT *)

noopExecute(c, s) == Ret(ok(c.tag, "NOOP Completed"), s, c, <<>>)

checkExecute(c, s) == Ret(ok(c.tag, "CHECK Completed"), s, c, <<>>)

capabilityCommands(lis, s) ==
    IF lis = starttlsLevel
    THEN (IF s.encryption = tlsLevel THEN <<"AUTH=PLAIN">>
          ELSE <<"STARTTLS", "LOGINDISABLED">>)
    ELSE IF lis = tlsLevel THEN <<"AUTH=PLAIN">>
    ELSE <<>>

capabilityExecute(c, s, lis) ==
    Ret(extra(ok(c.tag, "CAPABILITY completed"),
              "CAPABILITY IMAP4rev1 " \o Join(capabilityCommands(lis, s), " ")),
        s, c, <<>>)

\* a STARTTLS that records the listener's level instead of the TLS level
starttlsExecuteKeepsLevel(c, s) ==
    Ret(replaceBuffers(empty), [s EXCEPT !.encryption = starttlsLevel], c, <<>>)

starttlsExecute(c, s) ==
    Ret(replaceBuffers(empty), [s EXCEPT !.encryption = tlsLevel], c, <<>>)

\* a login that takes the absence of an error for success
loginAuthenticateIgnoresResult(c, s, backendUp) ==
    LET auth == Authenticate(Str(c.args[1]), Str(c.args[2]), backendUp)
        made == <<[op |-> "Authenticate", err |-> auth.err,
                   success |-> auth.success]>>
    IN  IF ~auth.err
        THEN Ret(ok(c.tag, "LOGIN completed"),
                 [s EXCEPT !.st = authenticated], c, made)
        ELSE Ret(no(c.tag, "LOGIN failure"), s, c, made)

\* login.execute once the user is known not to be logged in
loginAuthenticate(c, s, backendUp) ==
    LET auth == Authenticate(Str(c.args[1]), Str(c.args[2]), backendUp)
        made == <<[op |-> "Authenticate", err |-> auth.err,
                   success |-> auth.success]>>
    IN  IF auth.success
        THEN Ret(ok(c.tag, "LOGIN completed"),
                 [s EXCEPT !.st = authenticated], c, made)
        \* Fail by default
        ELSE Ret(no(c.tag, "LOGIN failure"), s, c, made)

\* a login that lets an authenticated session log in again
loginExecuteOffByOne(c, s, backendUp) ==
    IF s.st > authenticated
    THEN Ret(bad(c.tag, "LOGIN already logged in"), s, c, <<>>)
    ELSE loginAuthenticate(c, s, backendUp)

\* execute a LOGIN command
loginExecute(c, s, backendUp) ==
    \* Has the user already logged in?
    IF s.st > notAuthenticated
    THEN Ret(bad(c.tag, "LOGIN already logged in"), s, c, <<>>)
    ELSE loginAuthenticate(c, s, backendUp)

\* a logout that forgets to ask for the connection to be closed
logoutExecuteStaysOpen(c, s) ==
    Ret(extra(ok(c.tag, "LOGOUT completed"), "BYE IMAP4rev1 Server logging out"),
        [s EXCEPT !.st = notAuthenticated], c, <<>>)

\* execute a LOGOUT command
logoutExecute(c, s) ==
    Ret(shouldClose(extra(ok(c.tag, "LOGOUT completed"),
                          "BYE IMAP4rev1 Server logging out")),
        [s EXCEPT !.st = notAuthenticated], c, <<>>)

---------------------------------------------------------------------------
(* SELECT: command.go selectMailbox.execute, session.go selectMailbox and   *)
(* addMailboxInfo                                                           *)

\* selectMailbox selects a mailbox - exists is true if the mailbox exists
sessionSelectMailbox(s, path, failing) ==
    LET got == GetMailbox(path, failing)
    IN  IF got.err THEN [exists |-> FALSE, err |-> TRUE, sess |-> s]
        ELSE IF got.mbox.nil THEN [exists |-> FALSE, err |-> FALSE, sess |-> s]
        \* Make note of the mailbox
        ELSE [exists |-> TRUE, err |-> FALSE, sess |-> [s EXCEPT !.mailbox = got.mbox]]

\* the mailstore calls of addMailboxInfo, in the order the code makes them
mailboxInfoOps == <<"FirstUnseen", "TotalMessages", "RecentMessages", "NextUid">>

\* the calls made out of ops when the first failing one ends the sequence
CallsMade(ops, failing) ==
    LET bad1 == {i \in 1..Len(ops) : ops[i] \in failing}
    IN  IF bad1 = {} THEN ops
        ELSE SubSeq(ops, 1, CHOOSE i \in bad1 : \A j \in bad1 : i <= j)

\* addMailboxInfo adds mailbox information to the given response
addMailboxInfo(resp, s, failing) ==
    LET made == CallsMade(mailboxInfoOps, failing)
        firstUnseen == MailstoreCount("FirstUnseen", FirstUnseenValue, failing)
        totalMessages == MailstoreCount("TotalMessages", TotalMessagesValue, failing)
        recentMessages == MailstoreCount("RecentMessages", RecentMessagesValue, failing)
        nextUid == MailstoreCount("NextUid", NextUidValue, failing)
        r1 == extra(resp, ToString(totalMessages.n) \o " EXISTS")
        r2 == extra(r1, ToString(recentMessages.n) \o " RECENT")
        r3 == extra(r2, "OK [PERMANENTFLAGS (\\*)] Limited")
        r4 == extra(r3, "OK [UNSEEN " \o ToString(firstUnseen.n) \o "] Message "
                        \o ToString(firstUnseen.n) \o " is first unseen")
        r5 == extra(r4, "OK [UIDVALIDITY " \o ToString(s.mailbox.UidValidity)
                        \o "] UIDs valid")
        r6 == IF nextUid.n # 0
              THEN extra(r5, "OK [UIDNEXT " \o ToString(nextUid.n)
                             \o "] Predicted next UID")
              ELSE r5
    IN  IF firstUnseen.err \/ totalMessages.err \/ recentMessages.err \/ nextUid.err
        THEN [err |-> TRUE, resp |-> resp, calls |-> made]
        ELSE [err |-> FALSE, resp |-> r6, calls |-> made]

\* selectMailbox.execute once the user is known to be authenticated
selectMailboxSelect(c, s, failing) ==
    LET mbox == pathToSlice(c.args[1])
        sel == sessionSelectMailbox(s, mbox, failing)
    IN  IF sel.err
        THEN Ret(internalError(c.tag, "SELECT", BackendError), sel.sess, c,
                 <<"GetMailbox">>)
        ELSE IF ~sel.exists
        THEN Ret(no(c.tag, "SELECT No such mailbox"), sel.sess, c, <<"GetMailbox">>)
        \* Build a response that includes mailbox information
        ELSE LET info == addMailboxInfo(ok(c.tag, "[READ-WRITE] SELECT completed"),
                                        sel.sess, failing)
             IN  IF info.err
                 THEN Ret(internalError(c.tag, "SELECT", BackendError), sel.sess,
                          c, <<"GetMailbox">> \o info.calls)
                 ELSE Ret(info.resp, sel.sess, c, <<"GetMailbox">> \o info.calls)

\* a SELECT without the authentication check
selectMailboxExecuteUnchecked(c, s, failing) == selectMailboxSelect(c, s, failing)

\* execute a SELECT command
selectMailboxExecute(c, s, failing) ==
    \* Is the user authenticated?
    IF s.st < authenticated
    THEN Ret(mustAuthenticate(c.tag, "SELECT"), s, c, <<>>)
    ELSE selectMailboxSelect(c, s, failing)

---------------------------------------------------------------------------
(* STATUS: command.go statusMailbox.execute, session.go statusMailbox and   *)
(* addStatusMailboxInfo                                                     *)

\* statusMailbox - exists is true if the mailbox exists
sessionStatusMailbox(path, failing) ==
    LET got == GetMailbox(path, failing)
    IN  IF got.err THEN [exists |-> FALSE, err |-> TRUE]
        ELSE IF got.mbox.nil THEN [exists |-> FALSE, err |-> FALSE]
        ELSE [exists |-> TRUE, err |-> FALSE]

\* the mailstore operation a STATUS item asks for ("" when it asks for none)
statusParamOp(param) ==
    CASE param = "MESSAGES" -> "TotalMessages"
      [] param = "RECENT" -> "RecentMessages"
      [] param = "UIDNEXT" -> "NextUid"
      [] param = "UNSEEN" -> "CountUnseen"
      [] OTHER -> ""

RECURSIVE statusParamResponses(_, _, _)
\* the loop over params of addStatusMailboxInfo, for a mailbox that is not nil
statusParamResponses(params, mbox, failing) ==
    IF params = <<>> THEN [err |-> FALSE, out |-> <<>>, calls |-> <<>>]
    ELSE LET param == Head(params)
             op == statusParamOp(param)
             rest == statusParamResponses(Tail(params), mbox, failing)
             value == CASE param = "MESSAGES" -> TotalMessagesValue
                        [] param = "RECENT" -> RecentMessagesValue
                        [] param = "UIDNEXT" -> NextUidValue
                        [] param = "UNSEEN" -> CountUnseenValue
                        [] OTHER -> 0
             this == IF param = "UIDVALIDITY"
                     THEN <<"UIDVALIDITY " \o ToString(mbox.UidValidity)>>
                     ELSE IF op = "" THEN <<>>
                     ELSE IF param = "UIDNEXT" /\ value = 0 THEN <<>>
                     ELSE <<param \o " " \o ToString(value)>>
         IN  IF op # "" /\ op \in failing
             THEN [err |-> TRUE, out |-> <<>>, calls |-> <<op>>]
             ELSE [err |-> rest.err, out |-> this \o rest.out,
                   calls |-> (IF op = "" THEN <<>> ELSE <<op>>) \o rest.calls]

\* addStatusMailboxInfo adds mailbox information in the STATUS format
addStatusMailboxInfo(resp, mboxName, params, failing) ==
    LET got == GetMailbox(<<mboxName>>, failing)
    IN  IF got.err
        THEN [err |-> TRUE, panic |-> FALSE, resp |-> resp, calls |-> <<"GetMailbox">>]
        \* every use of a nil mbox dereferences it before any further call
        ELSE IF got.mbox.nil
        THEN [err |-> FALSE, panic |-> TRUE, resp |-> resp, calls |-> <<"GetMailbox">>]
        ELSE LET items == statusParamResponses(params, got.mbox, failing)
                 text == "STATUS " \o got.mbox.Name \o " ("
                         \o Join(items.out, " ") \o ")"
             IN  IF items.err
                 THEN [err |-> TRUE, panic |-> FALSE, resp |-> resp,
                       calls |-> <<"GetMailbox">> \o items.calls]
                 ELSE [err |-> FALSE, panic |-> FALSE, resp |-> extra(resp, text),
                       calls |-> <<"GetMailbox">> \o items.calls]

\* execute a STATUS command
\* a STATUS that makes note of the mailbox as SELECT does
statusMailboxSelects(c, s, failing) == selectMailboxExecute(c, s, failing)

statusMailboxExecute(c, s, failing) ==
    \* Is the user authenticated?
    IF s.st < authenticated
    THEN Ret(mustAuthenticate(c.tag, "STATUS"), s, c, <<>>)
    ELSE LET mbox == pathToSlice(c.args[1])
             stat == sessionStatusMailbox(mbox, failing)
         IN  IF stat.err
             THEN Ret(internalError(c.tag, "STATUS", BackendError), s, c,
                      <<"GetMailbox">>)
             ELSE IF ~stat.exists
             THEN Ret(no(c.tag, "STATUS No such mailbox"), s, c, <<"GetMailbox">>)
             ELSE LET info == addStatusMailboxInfo(ok(c.tag, "STATUS completed"),
                                                   Str(c.args[1]), c.params, failing)
                  IN  IF info.panic
                      THEN Panic(s, c, <<"GetMailbox">> \o info.calls)
                      ELSE IF info.err
                      THEN Ret(internalError(c.tag, "STATUS", BackendError), s, c,
                               <<"GetMailbox">> \o info.calls)
                      ELSE Ret(info.resp, s, c, <<"GetMailbox">> \o info.calls)

---------------------------------------------------------------------------
(* LIST: command.go list.execute, session.go list and depthFirstMailboxes   *)

\* the path is too long to recurse further
MaxListDepth == 20

IsWildcard(dir) == dir = "%" \/ dir = "*"

\* index of the first wildcard of pattern, 0 if it has none
FirstWildcard(pattern) ==
    LET ws == {i \in 1..Len(pattern) : IsWildcard(pattern[i])}
    IN  IF ws = {} THEN 0 ELSE CHOOSE i \in ws : \A j \in ws : i <= j

RECURSIVE depthFirstMailboxes(_, _, _, _)
RECURSIVE depthFirstLoop(_, _, _, _, _)
\* depthFirstMailboxes gets a recursive mailbox listing.  The err it returns
\* is the one declared at its top, which no case assigns: it is always nil.
depthFirstMailboxes(results, path, pattern, failing) ==
    \* Stop recursing if the pattern is empty or if the path is too long
    IF Len(pattern) = 0 \/ Len(path) > MaxListDepth
    THEN [ret |-> results, panic |-> FALSE, endless |-> FALSE, calls |-> <<>>]
    ELSE LET pat == pattern[1]
         IN  IF pat = "%"
             THEN LET got == GetMailboxes(path, failing)
                      loop == depthFirstLoop(results, got.all, Tail(pattern), failing,
                                             <<"GetMailboxes">>)
                  IN  IF got.err
                      THEN [ret |-> results, panic |-> FALSE, endless |-> FALSE,
                            calls |-> <<"GetMailboxes">>]
                      ELSE loop
             ELSE IF pat = "*"
             THEN LET got == GetMailboxes(path, failing)
                      loop == depthFirstLoop(results, got.all, pattern, failing,
                                             <<"GetMailboxes">>)
                  IN  IF got.err
                      THEN [ret |-> results, panic |-> FALSE, endless |-> FALSE,
                            calls |-> <<"GetMailboxes">>]
                      ELSE loop
             \* Not a wildcard pattern
             ELSE LET got == GetMailbox(path, failing)
                  IN  IF got.err
                      THEN [ret |-> results, panic |-> FALSE, endless |-> FALSE,
                            calls |-> <<"GetMailbox">>]
                      \* mbox.Path of a nil mbox
                      ELSE IF got.mbox.nil
                      THEN [ret |-> Append(results, got.mbox), panic |-> TRUE,
                            endless |-> FALSE, calls |-> <<"GetMailbox">>]
                      \* the same pattern at the same path again, without end
                      ELSE IF got.mbox.Path = path
                      THEN [ret |-> Append(results, got.mbox), panic |-> TRUE,
                            endless |-> TRUE, calls |-> <<"GetMailbox">>]
                      ELSE LET sub == depthFirstMailboxes(Append(results, got.mbox),
                                                          got.mbox.Path, pattern, failing)
                           IN  [sub EXCEPT !.calls = <<"GetMailbox">> \o @]

\* the loop over the mailboxes at one path: append each, then recurse below it
depthFirstLoop(ret, all, pattern, failing, made) ==
    IF all = <<>> THEN [ret |-> ret, panic |-> FALSE, endless |-> FALSE, calls |-> made]
    ELSE LET mbox == Head(all)
             sub == depthFirstMailboxes(Append(ret, mbox), mbox.Path, pattern, failing)
         IN  IF sub.panic THEN [sub EXCEPT !.calls = made \o @]
             ELSE depthFirstLoop(sub.ret, Tail(all), pattern, failing,
                                 made \o sub.calls)

\* list mailboxes matching the given mailbox pattern
sessionList(reference, pattern, failing) ==
    LET wildcard == FirstWildcard(pattern)
        \* Build a path that does not have wildcards
        path == reference \o (IF wildcard = 0 THEN pattern
                              ELSE SubSeq(pattern, 1, wildcard - 1))
    IN  IF wildcard = 0
        \* Just return a single mailbox if there are no wildcards
        THEN LET got == GetMailbox(path, failing)
             IN  [ret |-> IF got.err THEN <<>> ELSE <<got.mbox>>, err |-> got.err,
                  panic |-> FALSE, endless |-> FALSE, calls |-> <<"GetMailbox">>]
        \* Recursively get a listing
        ELSE LET dfm == depthFirstMailboxes(<<>>, path,
                                            SubSeq(pattern, wildcard, Len(pattern)),
                                            failing)
             IN  [ret |-> dfm.ret, err |-> FALSE, panic |-> dfm.panic,
                  endless |-> dfm.endless, calls |-> dfm.calls]

RECURSIVE listLines(_, _)
\* the untagged lines of a LIST response, one per mailbox
listLines(resp, mboxes) ==
    IF mboxes = <<>> THEN resp
    ELSE LET mbox == Head(mboxes)
         IN  listLines(extra(resp, "LIST (" \o joinMailboxFlags(mbox) \o ") \""
                                   \o pathDelimiter \o "\" "
                                   \o Join(mbox.Path, pathDelimiter)),
                       Tail(mboxes))

\* execute a LIST command
listExecute(c, s, failing) ==
    \* Is the user authenticated?
    IF s.st < authenticated
    THEN Ret(mustAuthenticate(c.tag, "LIST"), s, c, <<>>)
    \* Is the mailbox pattern empty?  The rune pathDelimiter is formatted with %s
    ELSE IF c.args[2] = <<>>
    THEN Ret(extra(ok(c.tag, "LIST completed"),
                   "LIST () \"%!s(int32=47)\" " \o Str(c.args[1])), s, c, <<>>)
    ELSE LET ref == pathToSlice(c.args[1])
             mbox == pathToSlice(c.args[2])
             got == sessionList(ref, mbox, failing)
         IN  IF got.panic THEN Panic(s, c, got.calls)
             ELSE IF got.err
             THEN Ret(internalError(c.tag, "LIST", BackendError), s, c, got.calls)
             \* Check for an empty response
             ELSE IF Len(got.ret) = 0
             THEN Ret(no(c.tag, "LIST no results"), s, c, got.calls)
             \* joinMailboxFlags dereferences every mailbox of the list
             ELSE IF \E i \in 1..Len(got.ret) : got.ret[i].nil
             THEN Panic(s, c, got.calls)
             ELSE Ret(listLines(ok(c.tag, "LIST completed"), got.ret), s, c, got.calls)

---------------------------------------------------------------------------
(* command.go: unknown, APPEND, SEARCH, FETCH *)

\* execute reports an error for an unknown command
unknownExecute(c, s) == Ret(bad(c.tag, c.cmd \o " unknown command"), s, c, <<>>)

\* session.append hands the message to the mailstore
sessionAppend(failing) == "AppendMessage" \in failing

\* literalRest reads length bytes from the connection, of which the client
\* sends available: io.ReadFull comes back short when there are fewer
literalRest(length, available) ==
    [err |-> available < length,
     n |-> IF available < length THEN available ELSE length]

\* an APPEND that hands the message to the mailstore on its first execution
appendCmdExecuteOnePhase(c, s, failing, available) ==
    IF sessionAppend(failing)
    THEN Ret(bad(c.tag, "Couldn't APPENDing message"), s, c, <<"AppendMessage">>)
    ELSE Ret(ok(c.tag, "APPEND completed"), s, c, <<"AppendMessage">>)

\* APPEND: available is the number of bytes of the literal the client sends
appendCmdExecute(c, s, failing, available) ==
    IF ~c.ready
    THEN Ret(continuation("Ready for literal data"), s, [c EXCEPT !.ready = TRUE], <<>>)
    ELSE IF literalRest(c.length, available).err
    THEN ReadLiteral(Ret(no(c.tag, "Couldn't read message: Short read: got "
                                   \o ToString(available) \o ", expected "
                                   \o ToString(c.length)),
                         s, c, <<>>), c.length)
    ELSE IF sessionAppend(failing)
    THEN ReadLiteral(Ret(bad(c.tag, "Couldn't APPENDing message"), s, c,
                         <<"AppendMessage">>), c.length)
    ELSE ReadLiteral(Ret(ok(c.tag, "APPEND completed"), s, c, <<"AppendMessage">>),
                     c.length)

\* the ids a search of the selected mailbox finds
SearchResult == <<"1", "2">>

\* session.search: the mailstore's search of the selected mailbox
sessionSearch(failing) ==
    IF "Search" \in failing THEN [err |-> TRUE, messages |-> <<>>]
    ELSE [err |-> FALSE, messages |-> SearchResult]

\* searchCmd.execute once a mailbox is known to be selected; c.length > 0
\* stands for a line that ends with a literal's '}', c.valid for arguments
\* that aggregateSearchArguments accepts
searchCmdSearch(c, s, failing) ==
    IF c.length > 0 /\ ~c.continuing
    THEN Ret(continuation("Continue"), s, [c EXCEPT !.continuing = TRUE], <<>>)
    ELSE LET c1 == [c EXCEPT !.continuing = FALSE]
             found == sessionSearch(failing)
             r == IF ~c.valid
                  THEN Ret(bad(c.tag, "SEARCH error with args"), s, c1, <<>>)
                  ELSE IF found.err
                  THEN Ret(bad(c.tag, "SEARCH internal error"), s, c1, <<"Search">>)
                  ELSE Ret(extra(ok(c.tag, "SEARCH completed"),
                                 "SEARCH " \o Join(found.messages, " ")),
                           s, c1, <<"Search">>)
         \* a continued SEARCH reads the literal with newLine
         IN  IF c.continuing THEN ReadLiteral(r, c.length) ELSE r

\* a SEARCH that asks for an authenticated session only
searchCmdExecuteAuthenticatedOnly(c, s, failing) ==
    IF s.st < authenticated
    THEN Ret(mustSelect(c.tag, "SEARCH"), s, c, <<>>)
    ELSE searchCmdSearch(c, s, failing)

searchCmdExecute(c, s, failing) ==
    IF s.st < selected
    THEN Ret(mustSelect(c.tag, "SEARCH"), s, c, <<>>)
    ELSE searchCmdSearch(c, s, failing)

\* the one message a fetch of the selected mailbox returns
FetchResult == <<[id |-> "1", items |-> <<[key |-> "FLAGS", values |-> <<"\\Seen">>]>>]>>

\* session.fetch: the mailstore's fetch from the selected mailbox
sessionFetch(failing) ==
    IF "Fetch" \in failing THEN [err |-> TRUE, result |-> <<>>]
    ELSE [err |-> FALSE, result |-> FetchResult]

RECURSIVE fetchLineElems(_)
\* "key value" for each item, a list of values in parentheses
fetchLineElems(items) ==
    IF items = <<>> THEN <<>>
    ELSE LET item == Head(items)
             value == IF Len(item.values) = 1 THEN item.values[1]
                      ELSE "(" \o Join(item.values, " ") \o ")"
         IN  <<item.key \o " " \o value>> \o fetchLineElems(Tail(items))

RECURSIVE fetchLines(_, _)
fetchLines(resp, result) ==
    IF result = <<>> THEN resp
    ELSE fetchLines(extra(resp, Head(result).id \o " FETCH (" \o
                                Join(fetchLineElems(Head(result).items), " ") \o ")"),
                    Tail(result))

fetchCmdExecute(c, s, failing) ==
    IF s.st < selected
    THEN Ret(mustSelect(c.tag, "FETCH"), s, c, <<>>)
    ELSE LET got == sessionFetch(failing)
         IN  IF got.err
             THEN Ret(bad(c.tag, "FETCH internal error"), s, c, <<"Fetch">>)
             ELSE Ret(fetchLines(ok(c.tag, "SEARCH"), got.result), s, c, <<"Fetch">>)

---------------------------------------------------------------------------
(* The command parser.  A line is what the lexer finds on it: the tag, the  *)
(* command word (after an optional UID), the astring arguments, a           *)
(* parenthesized list, and the length of a literal that ends the line.      *)
(* Missing tokens are empty: a bare atom is never empty.                    *)

Line(tag, verb, args) ==
    [eof |-> FALSE, tag |-> tag, uid |-> FALSE, verb |-> verb, args |-> args,
     hasList |-> FALSE, params |-> <<>>, literal |-> 0, valid |-> TRUE,
     literalArg |-> 0, via |-> "plain"]

\* the reader has no line left
EndOfInput == [Line("", "", <<>>) EXCEPT !.eof = TRUE]

\* strings.ToLower on the command words clients send
ToLower(word) ==
    CASE word = "NOOP" -> "noop"
      [] word = "CHECK" -> "check"
      [] word = "CAPABILITY" -> "capability"
      [] word = "STARTTLS" -> "starttls"
      [] word = "LOGIN" -> "login"
      [] word = "LOGOUT" -> "logout"
      [] word = "SELECT" -> "select"
      [] word = "STATUS" -> "status"
      [] word = "LIST" -> "list"
      [] word = "APPEND" -> "append"
      [] word = "SEARCH" -> "search"
      [] word = "FETCH" -> "fetch"
      [] OTHER -> word

\* strings.EqualFold(reference, "inbox")
EqualFoldInbox(reference) ==
    /\ Len(reference) = 5
    /\ reference[1] \in {"i", "I"}
    /\ reference[2] \in {"n", "N"}
    /\ reference[3] \in {"b", "B"}
    /\ reference[4] \in {"o", "O"}
    /\ reference[5] \in {"x", "X"}

ParseError == [err |-> TRUE, cmd |-> NoCommand]

Parsed(c) == [err |-> FALSE, cmd |-> c]

\* next attempts to read the next command
parserNext(ln) ==
    \* newLine fails, or the tag or the command word is missing
    IF ln.eof \/ ln.tag = "" \/ (~ln.uid /\ ln.verb = "") THEN ParseError
    \* "uid" is followed by the real command
    ELSE IF ln.uid /\ ln.verb = "" THEN ParseError
    ELSE LET tag == ln.tag
             rawCommand == IF ln.uid THEN "UID" ELSE ln.verb
             lcCommand == ToLower(ln.verb)
             nargs == Len(ln.args)
         IN  CASE lcCommand = "noop" -> Parsed(Command("NOOP", tag))
               [] lcCommand = "check" -> Parsed(Command("CHECK", tag))
               [] lcCommand = "capability" -> Parsed(Command("CAPABILITY", tag))
               [] lcCommand = "starttls" -> Parsed(Command("STARTTLS", tag))
               [] lcCommand = "login" ->
                    IF nargs < 2 THEN ParseError
                    ELSE Parsed([Command("LOGIN", tag) EXCEPT
                                   !.args = SubSeq(ln.args, 1, 2)])
               [] lcCommand = "logout" -> Parsed(Command("LOGOUT", tag))
               [] lcCommand = "select" ->
                    IF nargs < 1 THEN ParseError
                    ELSE Parsed([Command("SELECT", tag) EXCEPT
                                   !.args = SubSeq(ln.args, 1, 1)])
               [] lcCommand = "status" ->
                    IF nargs < 1 \/ ~ln.hasList THEN ParseError
                    ELSE Parsed([Command("STATUS", tag) EXCEPT
                                   !.args = SubSeq(ln.args, 1, 1),
                                   !.params = ln.params])
               [] lcCommand = "list" ->
                    IF nargs < 2 THEN ParseError
                    ELSE Parsed([Command("LIST", tag) EXCEPT
                                   !.args = <<IF EqualFoldInbox(ln.args[1])
                                              THEN <<"I", "N", "B", "O", "X">>
                                              ELSE ln.args[1],
                                              ln.args[2]>>])
               [] lcCommand = "append" ->
                    \* the literal length must follow, and be > 0
                    IF nargs < 1 \/ ln.literal <= 0 THEN ParseError
                    ELSE Parsed([Command("APPEND", tag) EXCEPT
                                   !.args = SubSeq(ln.args, 1, 1),
                                   !.params = ln.params,
                                   !.length = ln.literal])
               [] lcCommand = "search" ->
                    Parsed([Command("SEARCH", tag) EXCEPT
                              !.uid = ln.uid, !.args = ln.args,
                              !.length = ln.literal, !.valid = ln.valid])
               [] lcCommand = "fetch" ->
                    \* fetchArguments: a sequence set and the fetch attributes
                    IF nargs < 2 \/ ~ln.valid THEN ParseError
                    ELSE Parsed([Command("FETCH", tag) EXCEPT
                                   !.uid = ln.uid, !.args = ln.args])
               [] OTHER -> Parsed([Command("UNKNOWN", tag) EXCEPT !.cmd = rawCommand])

\* the number of astring tokens (expectStrings with lexer.astring or
\* lexer.listMailbox) the parser of a command asks the lexer for
astringsWanted(lcCommand) ==
    CASE lcCommand = "login" -> 2
      [] lcCommand = "select" -> 1
      [] lcCommand = "status" -> 1
      [] lcCommand = "list" -> 2
      [] lcCommand = "append" -> 1
      [] OTHER -> 0

\* generalString meets '{' at argument literalArg: lexer.literal reads the
\* length and then, with literalRest, the bytes from the connection
parserReadsLiteral(ln) ==
    /\ ~ln.eof
    /\ ln.tag # ""
    /\ ln.verb # ""
    /\ ln.literalArg >= 1
    /\ ln.literalArg <= Len(ln.args)
    /\ ln.literalArg <= astringsWanted(ToLower(ln.verb))

\* parser.next on a line whose literal argument the client sends available
\* bytes of: a short read makes generalString fail
parserNextRead(ln, available) ==
    IF parserReadsLiteral(ln)
       /\ literalRest(Len(ln.args[ln.literalArg]), available).err
    THEN ParseError
    ELSE parserNext(ln)

---------------------------------------------------------------------------
(* The lines a client sends *)

Tags == {"a1", "a2"}

MailboxNames == {<<"a">>, <<"a", "/", "c">>, <<"/", "b", "/">>, <<"x">>, <<>>}

ListPatterns == {<<>>, <<"a">>, <<"x">>, <<"%">>, <<"*">>, <<"%", "/", "c">>}

ListReferences == {<<>>, <<"a">>}

StatusItems == {<<"MESSAGES", "UIDNEXT">>, <<"UIDVALIDITY", "UNSEEN", "RECENT">>}

\* the length of the literal of an APPEND
LiteralLength == 2

LinesOf(tag) ==
    {Line(tag, v, <<>>) : v \in {"NOOP", "CHECK", "CAPABILITY", "STARTTLS",
                                 "LOGOUT", "FOO", "LOGIN", "SELECT", "APPEND",
                                 "FETCH", "SEARCH", ""}}
    \cup {Line(tag, "LOGIN", <<<<"u">>, pw>>) : pw \in {<<"p">>, <<"q">>}}
    \cup {Line(tag, "LOGIN", <<<<"u">>>>)}
    \cup {Line(tag, "SELECT", <<m>>) : m \in MailboxNames}
    \cup {[Line(tag, "STATUS", <<m>>) EXCEPT !.hasList = TRUE, !.params = ps] :
            m \in {<<"a">>, <<"a", "/", "c">>, <<"x">>}, ps \in StatusItems}
    \cup {Line(tag, "STATUS", <<<<"a">>>>)}
    \cup {Line(tag, "LIST", <<r, pat>>) : r \in ListReferences, pat \in ListPatterns}
    \cup {Line(tag, "LIST", <<<<"a">>>>)}
    \cup {[Line(tag, "APPEND", <<<<"a">>>>) EXCEPT !.literal = LiteralLength]}
    \cup {[Line(tag, "SEARCH", <<<<"A", "L", "L">>>>) EXCEPT !.uid = u, !.valid = ok1] :
            u \in BOOLEAN, ok1 \in BOOLEAN}
    \cup {[Line(tag, "FETCH", <<<<"1">>, <<"F", "L", "A", "G", "S">>>>) EXCEPT
             !.uid = u] : u \in BOOLEAN}
    \cup {[Line(tag, "", <<>>) EXCEPT !.uid = TRUE]}
    \* arguments sent as literals: "LOGIN u {1}" + "p", "SELECT {1}" + "a"
    \cup {[Line(tag, "LOGIN", <<<<"u">>, <<"p">>>>) EXCEPT !.literalArg = 2],
          [Line(tag, "SELECT", <<<<"a">>>>) EXCEPT !.literalArg = 1]}

Lines == {EndOfInput} \cup UNION {LinesOf(tag) : tag \in Tags} \cup {Line("", "", <<>>)}

\* the most lines a client sends behind a line without waiting for its answer
MaxBuffered == 1

\* the lines a client sends without waiting
PipelinedLines ==
    {Line("a2", "NOOP", <<>>), Line("a2", "LOGIN", <<<<"u">>, <<"p">>>>),
     Line("a2", "CAPABILITY", <<>>)}

RECURSIVE Pipelines(_)
Pipelines(n) ==
    IF n = 0 THEN {<<>>}
    ELSE Pipelines(n - 1)
         \cup {<<l>> \o rest : l \in PipelinedLines,
                               rest \in {q \in Pipelines(n - 1) : Len(q) = n - 1}}

\* what arrives on the connection when the reader fills its buffer: one line,
\* or a line that may be pipelined with the lines sent behind it
Sendable ==
    {<<l>> : l \in Lines}
    \cup {<<l>> \o rest : l \in PipelinedLines \cup {Line("a1", "STARTTLS", <<>>)},
                          rest \in Pipelines(MaxBuffered)}

\* a lexer that goes on reading from the first reader of the connection
newLineFirstReader(rd, buf, sent) ==
    IF buf # <<>> THEN [line |-> Head(buf), bufin |-> Tail(buf)]
    ELSE [line |-> [Head(sent) EXCEPT !.via = rd], bufin |-> Tail(sent)]

\* newLine reads a line through the lexer's reader rd: the plaintext reader
\* hands out what it has buffered before it reads the connection, and keeps
\* what arrived behind the line; the reader that replaced it does not see
\* that buffer
newLine(rd, buf, sent) ==
    IF rd = "plain"
    THEN IF buf # <<>> THEN [line |-> Head(buf), bufin |-> Tail(buf)]
         ELSE [line |-> Head(sent), bufin |-> Tail(sent)]
    ELSE [line |-> [Head(sent) EXCEPT !.via = rd], bufin |-> buf]

---------------------------------------------------------------------------
(* The sequence-set evaluator (toList), which Fetch and Flag call.  A        *)
(* sequence set is the sequence of its comma-separated parts; a part is a   *)
(* number, '*' or a range of two of them.                                   *)

\* '*' among the numbers of a sequence set
Star == -1

\* the largest number written in a sequence set, and the largest maximum
MaxNumber == 7

\* the parts of sequence sets: n, * and lo:hi
SequenceParts ==
    {[range |-> FALSE, lo |-> n, hi |-> n] : n \in (0..MaxNumber) \cup {Star}}
    \cup {[range |-> TRUE, lo |-> lo, hi |-> hi] :
            lo \in (0..MaxNumber) \cup {Star}, hi \in (0..MaxNumber) \cup {Star}}

\* an evaluation that takes a range as written, lo first
partIntegersAsWritten(part, max) ==
    LET lo == IF part.lo = Star THEN max ELSE part.lo
        hi == IF part.hi = Star THEN max ELSE part.hi
    IN  IF ~part.range THEN {lo}
        ELSE IF lo > max /\ hi > max THEN {}
        ELSE IF (lo = max /\ hi > max) \/ (hi = max /\ lo > max) THEN {max}
        ELSE lo..hi

\* the integers one part stands for, given the maximum: '*' resolves to max;
\* a range with both endpoints above max is discarded, one with an endpoint
\* equal to max and the other above it is max alone, and any other range is
\* every integer between its endpoints, whatever their order
partIntegers(part, max) ==
    LET lo == IF part.lo = Star THEN max ELSE part.lo
        hi == IF part.hi = Star THEN max ELSE part.hi
    IN  IF ~part.range THEN {lo}
        ELSE IF lo > max /\ hi > max THEN {}
        ELSE IF (lo = max /\ hi > max) \/ (hi = max /\ lo > max) THEN {max}
        ELSE IF lo <= hi THEN lo..hi
        ELSE hi..lo

\* toList(sequenceSet, max): the integers of the parts, ordered and without
\* duplicates
toList(sequenceSet, max) ==
    LET integers == UNION {partIntegers(sequenceSet[i], max) : i \in DOMAIN sequenceSet}
        RECURSIVE ordered(_)
        ordered(left) ==
            IF left = {} THEN <<>>
            ELSE LET least == CHOOSE n \in left : \A m \in left : n <= m
                 IN  <<least>> \o ordered(left \ {least})
    IN  ordered(integers)

NoList == [evaluated |-> FALSE, list |-> <<>>]

SequenceInit ==
    /\ seqIn \in [set : {<<p>> : p \in SequenceParts}
                        \cup {<<p, q>> : p \in SequenceParts, q \in SequenceParts},
                  max : 0..MaxNumber]
    /\ seqOut = NoList

\* no sequence set evaluated on its own
SequenceIdle ==
    /\ seqIn = [set |-> <<[range |-> FALSE, lo |-> 0, hi |-> 0]>>, max |-> 0]
    /\ seqOut = NoList

\* Fetch and Flag: inputAsList, err := toList(sequenceSet, max)
SequenceToList ==
    /\ ~seqOut.evaluated
    /\ seqOut' = [evaluated |-> TRUE, list |-> toList(seqIn.set, seqIn.max)]
    /\ UNCHANGED <<seqIn, notSequenceVars>>

SequenceNext == SequenceToList

---------------------------------------------------------------------------
(* notmuch_mailstore.go: UIDs and UIDVALIDITY of the notmuch mailstore.    *)
(* A message is known by its date, the key of notmuch's oldest-first       *)
(* order; the message ids of the code are these dates, and 0 stands for    *)
(* the empty message id.                                                   *)

\* the dates messages can carry
MaxDate == 3

Dates == 1..MaxDate

\* a nil map or slice
NilMap == [nil |-> TRUE, m |-> <<>>]

\* notmuch search --output=messages --sort=oldest-first "*"
RECURSIVE oldestFirst(_)
oldestFirst(messages) ==
    IF messages = {} THEN <<>>
    ELSE LET oldest == CHOOSE m \in messages : \A n \in messages : m <= n
         IN  <<oldest>> \o oldestFirst(messages \ {oldest})

\* the slice uidToMid builds from the search result mids: one element is
\* appended and the elements are copied one place up, so that index i >= 1
\* holds message i of the search
uidToMidSlice(mids) ==
    [nil |-> FALSE,
     m |-> [i \in 0..Len(mids) |->
              IF i = 0 THEN (IF mids = <<>> THEN 0 ELSE mids[1]) ELSE mids[i]]]

\* the map midToUid builds from the search result mids
midToUidTable(mids) ==
    [nil |-> FALSE,
     m |-> [mid \in {mids[i] : i \in DOMAIN mids} |->
              CHOOSE i \in DOMAIN mids : mids[i] = mid]]

\* uidToMid: the cached slice if there is one; otherwise the search, whose
\* failure is logged and gives nil without touching the cache
uidToMid(cache, messages, fails) ==
    IF ~cache.nil THEN [result |-> cache, cache |-> cache]
    ELSE IF fails THEN [result |-> NilMap, cache |-> cache]
    ELSE [result |-> uidToMidSlice(oldestFirst(messages)),
          cache |-> uidToMidSlice(oldestFirst(messages))]

\* midToUid: the cached map if there is one; otherwise the search, whose
\* failure is logged and gives nil without touching the cache
midToUid(cache, messages, fails) ==
    IF ~cache.nil THEN [result |-> cache, cache |-> cache]
    ELSE IF fails THEN [result |-> NilMap, cache |-> cache]
    ELSE [result |-> midToUidTable(oldestFirst(messages)),
          cache |-> midToUidTable(oldestFirst(messages))]

\* the UID a message has in a result of midToUid: Go's map gives 0 for a
\* missing key and for a nil map
UidByMid(result, mid) ==
    IF result.nil \/ mid \notin DOMAIN result.m THEN 0 ELSE result.m[mid]

\* the UID under which a result of uidToMid holds a message, 0 if none:
\* Fetch and Flag index the slice from 1
UidBySlice(result, mid) ==
    IF result.nil \/ ~\E i \in DOMAIN result.m : i >= 1 /\ result.m[i] = mid
    THEN 0
    ELSE CHOOSE i \in DOMAIN result.m : i >= 1 /\ result.m[i] = mid

\* the database UUID that "notmuch count --lastmod" prints
DatabaseUuid == "f7a9"

\* xxhash.Checksum32, kept symbolic: it is a function of the UUID alone
Checksum32(uuid) == "xxh32(" \o uuid \o ")"

\* GetMailbox: UidValidity is the checksum of the database's UUID
NotmuchUidValidity == Checksum32(DatabaseUuid)

\* no UID lookup to compare with
NoUids == [some |-> FALSE, uids |-> <<>>]

\* no Flag yet
NoFlag == [outcome |-> "none", known |-> FALSE]

\* no Fetch as the last operation
NoFetch == [outcome |-> "none", star |-> FALSE, mids |-> {}]

\* no SELECT remembered
NoSelect == [some |-> FALSE, validity |-> "", denotes |-> <<>>]

StoreInit ==
    /\ db \in SUBSET Dates
    /\ midToUidMap = NilMap
    /\ uidToMidMap = NilMap
    /\ lastOp = "none"
    /\ lastUids = NoUids
    /\ appended = {}
    /\ first = NoSelect
    /\ latest = NoSelect
    /\ lastFlag = NoFlag
    /\ lastFetch = NoFetch

\* a mailstore that is not used
StoreIdle == StoreInit /\ db = {}

\* Search with returnUid: the UIDs come from midToUid
StoreMidToUid ==
    /\ \E fails \in BOOLEAN :
         LET got == midToUid(midToUidMap, db, fails)
         IN  /\ midToUidMap' = got.cache
             /\ lastUids' = [some |-> TRUE,
                             uids |-> [mid \in db |-> UidByMid(got.result, mid)]]
    /\ lastOp' = "midToUid"
    /\ appended' = {}
    /\ lastFetch' = NoFetch
    /\ UNCHANGED <<db, uidToMidMap, first, latest, lastFlag, notStoreVars>>

\* Fetch with useUids: the messages come from uidToMid
StoreUidToMid ==
    /\ \E fails \in BOOLEAN :
         LET got == uidToMid(uidToMidMap, db, fails)
         IN  /\ uidToMidMap' = got.cache
             /\ lastUids' = [some |-> TRUE,
                             uids |-> [mid \in db |-> UidBySlice(got.result, mid)]]
    /\ lastOp' = "uidToMid"
    /\ appended' = {}
    /\ lastFetch' = NoFetch
    /\ UNCHANGED <<db, midToUidMap, first, latest, lastFlag, notStoreVars>>

\* AppendMessage: without NOTMUCH_MAILDIR nothing is run; otherwise "notmuch
\* insert" runs and writingNotmuchCommand.Close clears the cached maps,
\* whether the insert went well or not
StoreAppendMessage ==
    /\ \E date \in Dates, outcome \in {"no maildir", "insert failed", "inserted"} :
         /\ db' = IF outcome = "inserted" THEN db \cup {date} ELSE db
         /\ appended' = IF outcome = "inserted" THEN appended \cup {date} ELSE appended
         /\ IF outcome = "no maildir"
            THEN UNCHANGED <<midToUidMap, uidToMidMap, lastUids>>
            ELSE /\ midToUidMap' = NilMap
                 /\ uidToMidMap' = NilMap
                 /\ lastUids' = NoUids
    /\ lastOp' = "AppendMessage"
    /\ lastFetch' = NoFetch
    /\ UNCHANGED <<first, latest, lastFlag, notStoreVars>>

\* the sequence sets of a STORE: a number, '*', '1:*', and a range above
\* every message, which stands for no number
FlagSets ==
    {<<[range |-> FALSE, lo |-> n, hi |-> n]>> : n \in (0..(MaxDate + 1)) \cup {Star}}
    \cup {<<[range |-> TRUE, lo |-> 1, hi |-> Star]>>,
          <<[range |-> TRUE, lo |-> MaxDate + 1, hi |-> MaxDate + 2]>>}

\* the calls of Flag that can fail, one at most in a Flag
FlagFailures ==
    {"none", "messageIds", "uidToMid", "rawWrite", "Close",
     "Fetch messageIds", "Fetch uidToMid", "Fetch midToUid"}

\* len of a slice, 0 for a nil slice
SliceLen(slice) == IF slice.nil THEN 0 ELSE Cardinality(DOMAIN slice.m)

\* the loops of Flag over asList: a number above the length of the slice is
\* an error, and every other number, less offset, indexes the slice; Go
\* panics when the index is not one of the slice
RECURSIVE flagMids(_, _, _, _)
flagMids(asList, i, length, offset) ==
    IF i > Len(asList) THEN "ok"
    ELSE IF asList[i] > length THEN "error"
    ELSE IF asList[i] - offset \notin 0..(length - 1) THEN "panic"
    ELSE flagMids(asList, i + 1, length, offset)

\* the Fetch of the FLAGS that ends Flag: with UIDs the messages come from
\* uidToMid, whose length is the maximum of the sequence set, and a UID past
\* the slice is skipped; every message fetched has its UID looked up by
\* midToUid
FetchFlags(sequenceSet, useUids, messages, slice, table, failing) ==
    LET looked == uidToMid(slice, messages, failing = "Fetch uidToMid")
        max == IF useUids THEN SliceLen(looked.result) ELSE Cardinality(messages)
        inputAsList == toList(sequenceSet, max)
        fetched ==
            IF useUids
            THEN \E i \in DOMAIN inputAsList :
                    inputAsList[i] <= SliceLen(looked.result) - 1
            ELSE inputAsList # <<>>
        invalid ==
            /\ ~useUids
            /\ \E i \in DOMAIN inputAsList :
                  inputAsList[i] - 1 < 0 \/ inputAsList[i] - 1 > Cardinality(messages) - 1
    IN  IF failing = "Fetch messageIds"
        THEN [outcome |-> "error", uidToMidMap |-> slice, midToUidMap |-> table]
        ELSE [outcome |-> IF invalid THEN "error" ELSE "tagged",
              uidToMidMap |-> IF useUids THEN looked.cache ELSE slice,
              midToUidMap |->
                  IF fetched /\ ~invalid
                  THEN midToUid(table, messages, failing = "Fetch midToUid").cache
                  ELSE table]

\* Flag: the sequence set is evaluated against TotalMessages; the messages
\* are looked up in uidToMid or in messageIds; "notmuch tag" runs once for
\* each message (SET) or once for all, and its Close clears the cached maps;
\* the Fetch of the FLAGS ends it
Flag(mode, sequenceSet, useUids, messages, slice, table, failing) ==
    LET max == Cardinality(messages)
        asList == toList(sequenceSet, max)
        uidToMidList == uidToMid(slice, messages, failing = "uidToMid")
        looked == IF useUids THEN uidToMidList.cache ELSE slice
        mids == IF useUids
                THEN flagMids(asList, 1, SliceLen(uidToMidList.result), 0)
                ELSE flagMids(asList, 1, max, 1)
    IN  IF failing = "messageIds"
        THEN [outcome |-> "error", uidToMidMap |-> slice, midToUidMap |-> table]
        ELSE IF mids = "panic"
        THEN [outcome |-> "panic", uidToMidMap |-> NilMap, midToUidMap |-> NilMap]
        ELSE IF mids = "error"
        THEN [outcome |-> "error", uidToMidMap |-> looked, midToUidMap |-> table]
        ELSE IF mode = "SET" /\ asList = <<>>
        THEN FetchFlags(sequenceSet, useUids, messages, looked, table, failing)
        ELSE IF failing = "rawWrite"
        THEN [outcome |-> "error", uidToMidMap |-> looked, midToUidMap |-> table]
        ELSE IF failing = "Close"
        THEN [outcome |-> "error", uidToMidMap |-> NilMap, midToUidMap |-> NilMap]
        ELSE FetchFlags(sequenceSet, useUids, messages, NilMap, NilMap, failing)

\* whether the numbers of a sequence set are among the known messages:
\* sequence numbers 1..n, UIDs 0..n
KnownMessages(sequenceSet, useUids, messages) ==
    LET asList == toList(sequenceSet, Cardinality(messages))
    IN  \A i \in DOMAIN asList :
           /\ asList[i] <= Cardinality(messages)
           /\ ~useUids => asList[i] >= 1

\* Flag (STORE): "notmuch tag" changes tags only; a panic ends the server,
\* and the maps of the server started next are nil
StoreFlag ==
    /\ \E mode \in {"SET", "ADD"}, sequenceSet \in FlagSets, useUids \in BOOLEAN,
          failing \in FlagFailures :
         \E flagged \in {Flag(mode, sequenceSet, useUids, db, uidToMidMap,
                               midToUidMap, failing)} :
             /\ uidToMidMap' = flagged.uidToMidMap
             /\ midToUidMap' = flagged.midToUidMap
             /\ lastFlag' = [outcome |-> flagged.outcome,
                             known |-> /\ KnownMessages(sequenceSet, useUids, db)
                                       /\ failing # "uidToMid"]
    /\ lastOp' = "Flag"
    /\ lastUids' = NoUids
    /\ lastFetch' = NoFetch
    /\ UNCHANGED <<db, appended, first, latest, notStoreVars>>

\* '*' alone as a sequence set
StarAlone == <<[range |-> FALSE, lo |-> Star, hi |-> Star]>>

\* the calls of Fetch that can fail, one at most in a Fetch
FetchFailures ==
    {"none", "messageIds", "TotalMessages", "uidToMid", "getMessage", "midToUid"}

\* Fetch: the maximum of the sequence set is len(uidToMid) with UIDs and
\* TotalMessages without; with UIDs a number past the slice is skipped and
\* so is a message the mailbox lacks, without UIDs a number that is not the
\* sequence number of a message is an error; fetchMessageItems gets every
\* message and looks its UID up by midToUid
Fetch(sequenceSet, useUids, messages, slice, table, failing) ==
    LET mailboxMessageIds == oldestFirst(messages)
        looked == IF useUids THEN uidToMid(slice, messages, failing = "uidToMid")
                  ELSE [result |-> NilMap, cache |-> slice]
        max == IF useUids THEN SliceLen(looked.result) ELSE Len(mailboxMessageIds)
        inputAsList == toList(sequenceSet, max)
        numbers == {inputAsList[i] : i \in DOMAIN inputAsList}
        invalid == {id \in numbers :
                      id - 1 < 0 \/ id - 1 > Len(mailboxMessageIds) - 1}
        mids == IF useUids
                THEN {looked.result.m[uid] :
                        uid \in {n \in numbers : n <= SliceLen(looked.result) - 1}}
                     \cap messages
                ELSE {mailboxMessageIds[id] :
                        id \in {n \in numbers \ invalid : \A other \in invalid : n < other}}
        items == midToUid(table, messages, failing = "midToUid")
    IN  IF failing = "messageIds" \/ (~useUids /\ failing = "TotalMessages")
        THEN [outcome |-> "error", mids |-> {}, uidToMidMap |-> slice,
              midToUidMap |-> table]
        ELSE IF mids # {} /\ failing = "getMessage"
        THEN [outcome |-> "error", mids |-> {}, uidToMidMap |-> looked.cache,
              midToUidMap |-> table]
        ELSE [outcome |-> IF ~useUids /\ invalid # {} THEN "error" ELSE "ok",
              mids |-> IF ~useUids /\ invalid # {} THEN {} ELSE mids,
              uidToMidMap |-> looked.cache,
              midToUidMap |-> IF mids # {} THEN items.cache ELSE table]

\* Fetch (FETCH and UID FETCH): the messages it returns
StoreFetch ==
    /\ \E sequenceSet \in FlagSets, useUids \in BOOLEAN, failing \in FetchFailures :
         \E fetched \in {Fetch(sequenceSet, useUids, db, uidToMidMap, midToUidMap,
                                failing)} :
             /\ uidToMidMap' = fetched.uidToMidMap
             /\ midToUidMap' = fetched.midToUidMap
             /\ lastFetch' = [outcome |-> fetched.outcome,
                              star |-> useUids /\ sequenceSet = StarAlone,
                              mids |-> fetched.mids]
    /\ lastOp' = "Fetch"
    /\ lastUids' = NoUids
    /\ UNCHANGED <<db, appended, first, latest, lastFlag, notStoreVars>>

\* what the UIDs denote: the slice a UID FETCH would look its messages up in
Denotes == uidToMid(uidToMidMap, db, FALSE).result.m

\* SELECT: GetMailbox reports UIDVALIDITY
StoreSelect ==
    /\ \E remember \in BOOLEAN :
         LET now == [some |-> TRUE, validity |-> NotmuchUidValidity,
                     denotes |-> Denotes]
         IN  /\ latest' = now
             /\ first' = IF remember THEN now ELSE first
    /\ lastOp' = "GetMailbox"
    /\ lastFetch' = NoFetch
    /\ UNCHANGED <<db, midToUidMap, uidToMidMap, lastUids, appended, lastFlag,
                   notStoreVars>>

StoreNext ==
    \/ StoreMidToUid
    \/ StoreUidToMid
    \/ StoreAppendMessage
    \/ StoreFlag
    \/ StoreSelect

\* the messages of the store fetched, as more are appended
FetchNext ==
    \/ StoreFetch
    \/ StoreAppendMessage
    \/ StoreMidToUid
    \/ StoreUidToMid

---------------------------------------------------------------------------
(* notmuch_mailstore.go: the subprocesses of the mailstore. Every session   *)
(* runs "notmuch" through raw (under nm.l.RLock) or rawWrite (under         *)
(* nm.l.Lock); uidToMid, midToUid and threads keep their results under      *)
(* nm.cache. The database is known by the number of mutations made to it,   *)
(* and a cached result by the number of mutations its search saw.           *)

\* the sessions that use the mailstore
MaxSessions == 2

Sessions == 1..MaxSessions

\* the mutations a database goes through
MaxMutations == 2

\* the calls that return without releasing nm.l
MaxLeaks == 1

\* no session
Nobody == 0

\* a map that is nil
Nil == -1

\* the maps of UIDs kept under nm.cache
CachedMaps == {"uidToMid", "midToUid"}

\* everything kept under nm.cache
Caches == CachedMaps \cup {"threads"}

\* no map obtained yet
NoMap == [some |-> FALSE, built |-> 0, released |-> 0]

BackendInit ==
    /\ backendPc = [s \in Sessions |-> "idle"]
    /\ backendCall = [s \in Sessions |-> "none"]
    /\ saw = [s \in Sessions |-> Nil]
    /\ rwmutex = [writer |-> Nobody, readers |-> 0]
    /\ cacheMutex = Nobody
    /\ caches = [cache \in Caches |-> Nil]
    /\ inFlight = {}
    /\ version = 0
    /\ released = 0
    /\ obtained = NoMap
    /\ leaks = 0
    /\ panicked = FALSE

\* a mailstore no session uses
BackendIdle == BackendInit

\* a session calls the mailstore: uidToMid or midToUid (which call
\* nm.cache.Lock() first), threads, a read that uses raw itself (GetMailbox,
\* GetMailboxes, fetchMessageItems), or a mutation (AppendMessage, Flag)
call(s) ==
    /\ ~panicked
    /\ backendPc[s] = "idle"
    /\ \E called \in CachedMaps \cup {"threads", "read", "write"} :
         /\ called = "write" => version < MaxMutations
         /\ backendCall' = [backendCall EXCEPT ![s] = called]
         /\ backendPc' = [backendPc EXCEPT ![s] =
                            CASE called \in CachedMaps -> "cache.Lock"
                              [] called = "threads" -> "threads"
                              [] called = "read" -> "raw"
                              [] called = "write" -> "rawWrite"]
    /\ UNCHANGED <<saw, rwmutex, cacheMutex, caches, inFlight, version, released,
                   obtained, leaks, panicked, notBackendVars>>

\* uidToMid and midToUid when the map is there: nm.cache.Lock(), the map is
\* returned, and the deferred nm.cache.Unlock()
cachedLookup(s) ==
    /\ ~panicked
    /\ backendPc[s] = "cache.Lock"
    /\ cacheMutex = Nobody
    /\ caches[backendCall[s]] # Nil
    /\ obtained' = [some |-> TRUE, built |-> caches[backendCall[s]],
                    released |-> released]
    /\ backendPc' = [backendPc EXCEPT ![s] = "idle"]
    /\ backendCall' = [backendCall EXCEPT ![s] = "none"]
    /\ UNCHANGED <<saw, rwmutex, cacheMutex, caches, inFlight, version, released,
                   leaks, panicked, notBackendVars>>

\* uidToMid and midToUid when the map is nil: nm.cache.Lock() is kept while
\* nm.json runs the search
lookup(s) ==
    /\ ~panicked
    /\ backendPc[s] = "cache.Lock"
    /\ cacheMutex = Nobody
    /\ caches[backendCall[s]] = Nil
    /\ cacheMutex' = s
    /\ backendPc' = [backendPc EXCEPT ![s] = "raw"]
    /\ UNCHANGED <<backendCall, saw, rwmutex, caches, inFlight, version, released,
                   obtained, leaks, panicked, notBackendVars>>

\* threads, its beginning: the cache is read under nm.cache.RLock(); a
\* result that is there is returned, otherwise nm.json runs the search of
\* the threads with no lock on the cache
threads(s) ==
    /\ ~panicked
    /\ backendPc[s] = "threads"
    /\ cacheMutex = Nobody
    /\ IF caches["threads"] # Nil
       THEN /\ backendPc' = [backendPc EXCEPT ![s] = "idle"]
            /\ backendCall' = [backendCall EXCEPT ![s] = "none"]
       ELSE /\ backendPc' = [backendPc EXCEPT ![s] = "raw"]
            /\ UNCHANGED backendCall
    /\ UNCHANGED <<saw, rwmutex, cacheMutex, caches, inFlight, version, released,
                   obtained, leaks, panicked, notBackendVars>>

\* the server panics: its sessions and its locks are gone, its subprocesses
\* are left running
panic ==
    /\ backendPc' = [s \in Sessions |-> "idle"]
    /\ backendCall' = [s \in Sessions |-> "none"]
    /\ saw' = [s \in Sessions |-> Nil]
    /\ rwmutex' = [writer |-> Nobody, readers |-> 0]
    /\ cacheMutex' = Nobody
    /\ caches' = [cache \in Caches |-> Nil]
    /\ inFlight' = {[p EXCEPT !.waited = FALSE] : p \in inFlight}
    /\ panicked' = TRUE
    /\ UNCHANGED leaks

\* raw: nm.l.RLock(), then the subprocess is started; when it does not start
\* raw returns with the lock still read-locked; a caller of raw returns the
\* error, and the Close that json defers on the empty command it got panics
raw(s) ==
    /\ ~panicked
    /\ backendPc[s] = "raw"
    /\ rwmutex.writer = Nobody
    /\ \E started \in BOOLEAN :
         /\ ~started => leaks < MaxLeaks
         /\ IF started
            THEN /\ rwmutex' = [rwmutex EXCEPT !.readers = @ + 1]
                 /\ inFlight' = inFlight \cup
                                  {[session |-> s, kind |-> "read", waited |-> TRUE]}
                 /\ backendPc' = [backendPc EXCEPT ![s] = "reading"]
                 /\ UNCHANGED <<backendCall, saw, cacheMutex, caches, leaks, panicked>>
            ELSE IF backendCall[s] = "read"
            THEN /\ rwmutex' = [rwmutex EXCEPT !.readers = @ + 1]
                 /\ leaks' = leaks + 1
                 /\ backendPc' = [backendPc EXCEPT ![s] = "idle"]
                 /\ backendCall' = [backendCall EXCEPT ![s] = "none"]
                 /\ UNCHANGED <<saw, cacheMutex, caches, inFlight, panicked>>
            ELSE panic
    /\ UNCHANGED <<version, released, obtained, notBackendVars>>

\* a caller of raw whose reading of the output fails returns the error and
\* does not call Close (GetMailbox, GetMailboxes): the lock stays
\* read-locked and nobody waits for the subprocess
readError(s) ==
    /\ ~panicked
    /\ backendPc[s] = "reading"
    /\ backendCall[s] = "read"
    /\ leaks < MaxLeaks
    /\ leaks' = leaks + 1
    /\ inFlight' = (inFlight \ {[session |-> s, kind |-> "read", waited |-> TRUE]})
                     \cup {[session |-> s, kind |-> "read", waited |-> FALSE]}
    /\ backendPc' = [backendPc EXCEPT ![s] = "idle"]
    /\ backendCall' = [backendCall EXCEPT ![s] = "none"]
    /\ UNCHANGED <<saw, rwmutex, cacheMutex, caches, version, released, obtained,
                   panicked, notBackendVars>>

\* notmuchCommand.Close: the output is drained, cmd.Wait(), c.l.RUnlock().
\* For json the output was decoded before: the search saw the database as
\* it is while the lock is read-locked, or the decoding failed. threads
\* runs one search for the threads and one "notmuch show" for each thread
\* (here there is one thread at most), and returns the error of a search
\* that fails
notmuchCommandClose(s) ==
    /\ ~panicked
    /\ backendPc[s] = "reading"
    /\ inFlight' = inFlight \ {[session |-> s, kind |-> "read", waited |-> TRUE]}
    /\ rwmutex' = [rwmutex EXCEPT !.readers = @ - 1]
    /\ \E decoded \in BOOLEAN, more \in BOOLEAN :
         CASE backendCall[s] = "read" ->
                /\ backendPc' = [backendPc EXCEPT ![s] = "idle"]
                /\ backendCall' = [backendCall EXCEPT ![s] = "none"]
                /\ UNCHANGED saw
           [] backendCall[s] \in CachedMaps ->
                /\ backendPc' = [backendPc EXCEPT ![s] = "searched"]
                /\ saw' = [saw EXCEPT ![s] = IF decoded THEN version ELSE Nil]
                /\ UNCHANGED backendCall
           [] backendCall[s] \in {"threads", "show"} ->
                IF ~decoded
                THEN /\ backendPc' = [backendPc EXCEPT ![s] = "idle"]
                     /\ backendCall' = [backendCall EXCEPT ![s] = "none"]
                     /\ saw' = [saw EXCEPT ![s] = Nil]
                ELSE IF backendCall[s] = "threads" /\ more
                THEN /\ backendPc' = [backendPc EXCEPT ![s] = "raw"]
                     /\ backendCall' = [backendCall EXCEPT ![s] = "show"]
                     /\ saw' = [saw EXCEPT ![s] = version]
                ELSE /\ backendPc' = [backendPc EXCEPT ![s] = "searched"]
                     /\ saw' = [saw EXCEPT ![s] = IF @ = Nil THEN version ELSE @]
                     /\ UNCHANGED backendCall
    /\ UNCHANGED <<cacheMutex, caches, version, released, obtained, leaks, panicked,
                   notBackendVars>>

\* the end of uidToMid and midToUid: a failed search is logged and nil is
\* returned; otherwise the map is built, kept and returned; the deferred
\* nm.cache.Unlock()
keepMap(s) ==
    /\ ~panicked
    /\ backendPc[s] = "searched"
    /\ backendCall[s] \in CachedMaps
    /\ IF saw[s] = Nil
       THEN UNCHANGED <<caches, obtained>>
       ELSE /\ caches' = [caches EXCEPT ![backendCall[s]] = saw[s]]
            /\ obtained' = [some |-> TRUE, built |-> saw[s], released |-> released]
    /\ cacheMutex' = Nobody
    /\ backendPc' = [backendPc EXCEPT ![s] = "idle"]
    /\ backendCall' = [backendCall EXCEPT ![s] = "none"]
    /\ saw' = [saw EXCEPT ![s] = Nil]
    /\ UNCHANGED <<rwmutex, inFlight, version, released, leaks, panicked,
                   notBackendVars>>

\* the end of threads: the result of a query of one tag or of "*" is kept,
\* under nm.cache.Lock()
keepThreads(s) ==
    /\ ~panicked
    /\ backendPc[s] = "searched"
    /\ backendCall[s] \in {"threads", "show"}
    /\ \E kept \in BOOLEAN :
         IF kept
         THEN /\ cacheMutex = Nobody
              /\ caches' = [caches EXCEPT !["threads"] = saw[s]]
         ELSE UNCHANGED caches
    /\ backendPc' = [backendPc EXCEPT ![s] = "idle"]
    /\ backendCall' = [backendCall EXCEPT ![s] = "none"]
    /\ saw' = [saw EXCEPT ![s] = Nil]
    /\ UNCHANGED <<rwmutex, cacheMutex, inFlight, version, released, obtained,
                   leaks, panicked, notBackendVars>>

\* rawWrite: nm.l.Lock(), then the subprocess is started; when it does not
\* start rawWrite returns with the lock still locked
rawWrite(s) ==
    /\ ~panicked
    /\ backendPc[s] = "rawWrite"
    /\ rwmutex.writer = Nobody
    /\ rwmutex.readers = 0
    /\ rwmutex' = [rwmutex EXCEPT !.writer = s]
    /\ \E started \in BOOLEAN :
         /\ ~started => leaks < MaxLeaks
         /\ IF started
            THEN /\ inFlight' = inFlight \cup
                                  {[session |-> s, kind |-> "write", waited |-> TRUE]}
                 /\ backendPc' = [backendPc EXCEPT ![s] = "writing"]
                 /\ UNCHANGED <<backendCall, leaks>>
            ELSE /\ leaks' = leaks + 1
                 /\ backendPc' = [backendPc EXCEPT ![s] = "idle"]
                 /\ backendCall' = [backendCall EXCEPT ![s] = "none"]
                 /\ UNCHANGED inFlight
    /\ UNCHANGED <<saw, cacheMutex, caches, version, released, obtained, panicked,
                   notBackendVars>>

\* writingNotmuchCommand.Close, its first half: c.WriteCloser.Close(), and
\* cmd.Wait() only if that went well: otherwise the subprocess is left
\* running; then c.l.Unlock()
writingNotmuchCommandClose(s) ==
    /\ ~panicked
    /\ backendPc[s] = "writing"
    /\ \E closed \in BOOLEAN :
         IF closed
         THEN /\ inFlight' = inFlight \ {[session |-> s, kind |-> "write", waited |-> TRUE]}
              /\ version' = version + 1
              /\ released' = version + 1
         ELSE /\ inFlight' = (inFlight \ {[session |-> s, kind |-> "write", waited |-> TRUE]})
                                \cup {[session |-> s, kind |-> "write", waited |-> FALSE]}
              /\ UNCHANGED <<version, released>>
    /\ rwmutex' = [rwmutex EXCEPT !.writer = Nobody]
    /\ backendPc' = [backendPc EXCEPT ![s] = "unlocked"]
    /\ UNCHANGED <<backendCall, saw, cacheMutex, caches, obtained, leaks, panicked,
                   notBackendVars>>

\* writingNotmuchCommand.Close, its second half: c.nm.cache.Lock(), the maps
\* and the threads are set to nil, c.nm.cache.Unlock()
clearCaches(s) ==
    /\ ~panicked
    /\ backendPc[s] = "unlocked"
    /\ cacheMutex = Nobody
    /\ caches' = [cache \in Caches |-> Nil]
    /\ backendPc' = [backendPc EXCEPT ![s] = "idle"]
    /\ backendCall' = [backendCall EXCEPT ![s] = "none"]
    /\ UNCHANGED <<saw, rwmutex, cacheMutex, inFlight, version, released,
                   obtained, leaks, panicked, notBackendVars>>

\* a subprocess nobody waits for ends by itself
subprocessExits ==
    /\ \E p \in inFlight :
         /\ ~p.waited
         /\ inFlight' = inFlight \ {p}
    /\ UNCHANGED <<backendPc, backendCall, saw, rwmutex, cacheMutex, caches,
                   version, released, obtained, leaks, panicked, notBackendVars>>

\* what a session does once it has called the mailstore
returns(s) ==
    \/ cachedLookup(s)
    \/ lookup(s)
    \/ threads(s)
    \/ raw(s)
    \/ readError(s)
    \/ notmuchCommandClose(s)
    \/ keepMap(s)
    \/ keepThreads(s)
    \/ rawWrite(s)
    \/ writingNotmuchCommandClose(s)
    \/ clearCaches(s)

BackendNext ==
    \/ \E s \in Sessions : call(s)
    \/ \E s \in Sessions : cachedLookup(s)
    \/ \E s \in Sessions : lookup(s)
    \/ \E s \in Sessions : threads(s)
    \/ \E s \in Sessions : raw(s)
    \/ \E s \in Sessions : readError(s)
    \/ \E s \in Sessions : notmuchCommandClose(s)
    \/ \E s \in Sessions : keepMap(s)
    \/ \E s \in Sessions : keepThreads(s)
    \/ \E s \in Sessions : rawWrite(s)
    \/ \E s \in Sessions : writingNotmuchCommandClose(s)
    \/ \E s \in Sessions : clearCaches(s)
    \/ subprocessExits

---------------------------------------------------------------------------
(* Server.Stop and Server.runListener: the accepting goroutine sends every  *)
(* accepted client on the unbuffered channel newClient; the select loop     *)
(* either receives a client and starts its handler or sees done closed and  *)
(* returns.                                                                 *)

\* the connections clients open
MaxConnections == 5

NoClient == [number |-> 0, afterStop |-> FALSE]

\* defaultConfig: maxClients
defaultMaxClients == 8

\* the values MaxClientsOption is given
MaxClientsOptions == {1, 2}

\* NewServer: the default configuration, changed by the options
ServerInit ==
    /\ maxClients \in MaxClientsOptions \cup {defaultMaxClients}
    /\ handling = {}
    /\ done = FALSE
    /\ loopPc = "select"
    /\ acceptorPc = "accept"
    /\ clientNumber = 1
    /\ newClient = NoClient
    /\ spawning = NoClient
    /\ handled = {}

\* a server that was not started
ServerIdle == ServerInit /\ maxClients = defaultMaxClients

\* the cases of the select of runListener that can proceed; when both can,
\* Go chooses one of them at random
selectCases(closed, sending) ==
    (IF closed THEN {"done"} ELSE {}) \cup (IF sending THEN {"newClient"} ELSE {})

\* Stop closes done; a loop that is blocked in its select is woken by it
ServerStop ==
    /\ ~done
    /\ done' = TRUE
    /\ loopPc' = IF loopPc = "blocked" THEN "returned" ELSE loopPc
    /\ UNCHANGED <<acceptorPc, clientNumber, newClient, spawning, handled,
                   maxClients, handling, notServerVars>>

\* the accepting goroutine accepts a connection and makes its client; the
\* listener is never closed, so it accepts after Stop as before
ServerAccept ==
    /\ acceptorPc = "accept"
    /\ clientNumber <= MaxConnections
    /\ newClient' = [number |-> clientNumber, afterStop |-> done]
    /\ clientNumber' = clientNumber + 1
    \* a loop blocked in its select receives the client at once
    /\ IF loopPc = "blocked"
       THEN /\ loopPc' = "spawn"
            /\ spawning' = newClient'
            /\ acceptorPc' = "accept"
       ELSE /\ acceptorPc' = "send"
            /\ UNCHANGED <<loopPc, spawning>>
    /\ UNCHANGED <<done, handled, maxClients, handling, notServerVars>>

\* the loop comes to its select
ServerSelect ==
    /\ loopPc = "select"
    /\ LET ready == selectCases(done, acceptorPc = "send")
       IN  IF ready = {}
           THEN /\ loopPc' = "blocked"
                /\ UNCHANGED <<acceptorPc, spawning>>
           ELSE \E case \in ready :
                  IF case = "done"
                  THEN /\ loopPc' = "returned"
                       /\ UNCHANGED <<acceptorPc, spawning>>
                  ELSE /\ loopPc' = "spawn"
                       /\ spawning' = newClient
                       /\ acceptorPc' = "accept"
    /\ UNCHANGED <<done, clientNumber, newClient, handled, maxClients, handling,
                   notServerVars>>

\* go client.handle(s)
ServerHandle ==
    /\ loopPc = "spawn"
    /\ handled' = handled \cup {spawning}
    /\ handling' = handling \cup {spawning.number}
    /\ loopPc' = "select"
    /\ UNCHANGED <<done, acceptorPc, clientNumber, newClient, spawning, maxClients,
                   notServerVars>>

\* client.handle returns: the session is over and the connection closed
ServerHandleReturns ==
    /\ \E client \in handling : handling' = handling \ {client}
    /\ UNCHANGED <<done, loopPc, acceptorPc, clientNumber, newClient, spawning,
                   handled, maxClients, notServerVars>>

ServerNext ==
    \/ ServerStop
    \/ ServerAccept
    \/ ServerSelect
    \/ ServerHandle
    \/ ServerHandleReturns

---------------------------------------------------------------------------
(* lexer.go: aggregateSearchArguments, on the tokens that searchString and  *)
(* astring cut the line into, and notmuch_mailstore.go:                     *)
(* parseSearchArguments, which compiles the tree into a notmuch query.      *)
(* A query is kept as the sequence of its pieces, a leading "-" and the     *)
(* parentheses being pieces of their own, so that the code's tests and      *)
(* slices of the first and last byte are computed on it.                    *)

\* the most tokens of a SEARCH line
MaxTokens == 5

FlagKeys ==
    {"ALL", "ANSWERED", "DELETED", "FLAGGED", "NEW", "OLD", "RECENT", "SEEN",
     "UNANSWERED", "UNDELETED", "UNFLAGGED", "UNSEEN", "DRAFT", "UNDRAFT"}

StringKeys ==
    {"KEYWORD", "UNKEYWORD", "BCC", "BODY", "CC", "FROM", "SUBJECT", "TEXT", "TO"}

DateKeys == {"BEFORE", "ON", "SINCE", "SENTBEFORE", "SENTON", "SENTSINCE"}

NumberKeys == {"LARGER", "SMALLER"}

\* time.Parse("02-Jan-2006", value) succeeds
timeParse(value) == value \in {"20-Jan-1830"}

\* strconv.Atoi(value) succeeds
Atoi(value) == value \in {"1024", "7"}

\* isValid: the token is a sequence set
isValid(token) == token \in {"7", "1:3", "2,4:*"}

\* a searchArgument as appendArg makes it
searchArgument(depth) ==
    [not |-> FALSE, key |-> "", values |-> <<>>, children |-> <<>>,
     or |-> FALSE, group |-> FALSE, depth |-> depth]

\* lexer.astring on token i: a parenthesis is not in the astring charset,
\* and neither is the end of the line
astring(tokens, i) ==
    IF i > Len(tokens) \/ tokens[i] \in {"(", ")"}
    THEN [ok |-> FALSE, value |-> ""]
    ELSE [ok |-> TRUE, value |-> tokens[i]]

SearchError(message) == [err |-> TRUE, message |-> message, args |-> <<>>]

\* the end of the big loop: one element of the innermost OR is counted, and
\* an OR that has its two elements is left
countOr(depth, currentArg, allOrs) ==
    IF allOrs = <<>>
    THEN [depth |-> depth, currentArg |-> currentArg, allOrs |-> allOrs]
    ELSE LET last == Len(allOrs)
         IN  IF allOrs[last] - 1 = 0
             THEN [depth |-> depth - 1,
                   currentArg |-> [currentArg EXCEPT !.depth = depth - 1],
                   allOrs |-> SubSeq(allOrs, 1, last - 1)]
             ELSE [depth |-> depth, currentArg |-> currentArg,
                   allOrs |-> [allOrs EXCEPT ![last] = @ - 1]]

\* the big loop of aggregateSearchArguments from token i on: the flat list
\* of arguments with their depths
RECURSIVE aggregateLoop(_, _, _, _, _, _)
aggregateLoop(tokens, i, args, depth, currentArg, allOrs) ==
    IF i > Len(tokens)
    THEN IF depth # 0 THEN SearchError("Uneven parentheses")
         ELSE [err |-> FALSE, message |-> "", args |-> args]
    ELSE
    LET next == tokens[i]
        \* appendArg at the present depth, then the end of the loop
        appendArg(newArg, used) ==
            LET c == countOr(depth, searchArgument(depth), allOrs)
            IN  aggregateLoop(tokens, i + used, Append(args, newArg),
                              c.depth, c.currentArg, c.allOrs)
        one == astring(tokens, i + 1)
        two == astring(tokens, i + 2)
    IN  CASE next = "(" ->
               aggregateLoop(tokens, i + 1,
                             Append(args, [currentArg EXCEPT !.group = TRUE]),
                             depth + 1, searchArgument(depth + 1), allOrs)
          [] next = ")" ->
               LET c == countOr(depth - 1, currentArg, allOrs)
               IN  aggregateLoop(tokens, i + 1, args, c.depth, c.currentArg, c.allOrs)
          [] next \in FlagKeys ->
               appendArg([currentArg EXCEPT !.key = next], 1)
          [] next \in StringKeys ->
               IF ~one.ok THEN SearchError("Couldn't parse argument to " \o next)
               ELSE appendArg([currentArg EXCEPT !.key = next,
                                                 !.values = <<one.value>>], 2)
          [] next \in DateKeys ->
               IF ~one.ok THEN SearchError("Couldn't parse argument to " \o next)
               ELSE IF ~timeParse(one.value) THEN SearchError("parsing time")
               ELSE appendArg([currentArg EXCEPT !.key = next,
                                                 !.values = <<one.value>>], 2)
          [] next \in NumberKeys ->
               IF ~one.ok THEN SearchError("Couldn't parse argument to " \o next)
               ELSE IF ~Atoi(one.value) THEN SearchError("invalid syntax")
               ELSE appendArg([currentArg EXCEPT !.key = next,
                                                 !.values = <<one.value>>], 2)
          [] next = "HEADER" ->
               IF ~one.ok THEN SearchError("Couldn't parse header field for HEADER")
               ELSE IF ~two.ok THEN SearchError("Couldn't parse header value for HEADER")
               ELSE appendArg([currentArg EXCEPT !.key = next,
                                                 !.values = <<one.value, two.value>>], 3)
          [] next = "NOT" ->
               aggregateLoop(tokens, i + 1, args, depth,
                             [currentArg EXCEPT !.not = TRUE], allOrs)
          [] next = "OR" ->
               aggregateLoop(tokens, i + 1,
                             Append(args, [currentArg EXCEPT !.or = TRUE,
                                                             !.children = <<>>]),
                             depth + 1, searchArgument(depth + 1),
                             Append(allOrs, 2))
          [] next = "UID" ->
               IF ~one.ok \/ ~isValid(one.value)
               THEN SearchError("Couldn't parse sequence set to UID")
               ELSE appendArg([currentArg EXCEPT !.key = next,
                                                 !.values = <<one.value>>], 2)
          [] OTHER ->
               IF isValid(next)
               THEN appendArg([currentArg EXCEPT !.key = "SEQUENCESET",
                                                 !.values = <<next>>], 1)
               ELSE SearchError("Unrecognized search argument: " \o next)

reverseOf(s) == [j \in 1..Len(s) |-> s[Len(s) + 1 - j]]

\* the second loop: the arguments are taken last to first, and each takes
\* as its children the arguments behind it that are deeper than itself
RECURSIVE nestArguments(_, _, _)
nestArguments(args, i, outReverse) ==
    IF i = 0 THEN reverseOf(outReverse)
    ELSE LET sliceFrom ==
                 CHOOSE k \in 1..(Len(outReverse) + 1) :
                     /\ \A j \in k..Len(outReverse) : outReverse[j].depth > args[i].depth
                     /\ k = 1 \/ outReverse[k - 1].depth <= args[i].depth
             parent == [args[i] EXCEPT !.children =
                          @ \o reverseOf(SubSeq(outReverse, sliceFrom, Len(outReverse)))]
         IN  nestArguments(args, i - 1,
                           Append(SubSeq(outReverse, 1, sliceFrom - 1), parent))

aggregateSearchArguments(fullLine) ==
    LET flat == aggregateLoop(fullLine, 1, <<>>, 0, searchArgument(0), <<>>)
    IN  IF flat.err THEN flat
        ELSE [flat EXCEPT !.args = nestArguments(flat.args, Len(flat.args), <<>>)]

\* keywordToTag, each fragment in its pieces; a key the map does not have
\* gives the empty string
keywordToTag(key) ==
    CASE key = "ANSWERED" -> <<"tag:answered">>
      [] key = "DELETED" -> <<"tag:deleted">>
      [] key = "FLAGGED" -> <<"tag:starred">>
      [] key = "SEEN" -> <<"-", "tag:unread">>
      [] key = "UNSANSWERED" -> <<"-", "tag:answered">>
      [] key = "UNDELETED" -> <<"-", "tag:deleted">>
      [] key = "UNFLAGGED" -> <<"-", "tag:starred">>
      [] key = "UNSEEN" -> <<"tag:unread">>
      [] OTHER -> <<>>

quote(in) == <<"\"", in, "\"">>

\* a join that leaves the separator out
RECURSIVE joinQueriesNoSeparator(_, _)
joinQueriesNoSeparator(queries, sep) ==
    IF queries = <<>> THEN <<>>
    ELSE queries[1] \o joinQueriesNoSeparator(Tail(queries), sep)

\* strings.Join of queries, each a sequence of pieces
RECURSIVE joinQueries(_, _)
joinQueries(queries, sep) ==
    IF queries = <<>> THEN <<>>
    ELSE IF Len(queries) = 1 THEN queries[1]
    ELSE queries[1] \o <<sep>> \o joinQueries(Tail(queries), sep)

\* the query string of a sequence of pieces
RECURSIVE queryString(_)
queryString(pieces) ==
    IF pieces = <<>> THEN "" ELSE Head(pieces) \o queryString(Tail(pieces))

QueryPanic == [panic |-> TRUE, query |-> <<>>]

\* the fragment the switch on arg.key appends to query, if any
keyFragment(arg) ==
    CASE arg.key \in {"ANSWERED", "DELETED", "FLAGGED", "SEEN", "DRAFT",
                      "UNSANSWERED", "UNDELETED", "UNFLAGGED", "UNSEEN", "UNDRAFT"} ->
               <<keywordToTag(arg.key)>>
      [] arg.key = "KEYWORD" -> <<<<"tag:", arg.values[1]>>>>
      [] arg.key = "UNKEYWORD" -> <<<<"-", "tag:", arg.values[1]>>>>
      [] arg.key = "FROM" -> <<<<"from:", arg.values[1]>>>>
      [] arg.key \in {"TO", "CC", "BCC"} -> <<<<"to:", arg.values[1]>>>>
      [] arg.key \in {"SENTON", "ON"} -> <<<<"date:", arg.values[1], "..!">>>>
      [] arg.key \in {"SENTSINCE", "SINCE"} -> <<<<"date:", arg.values[1], "..">>>>
      [] arg.key \in {"SENTBEFORE", "BEFORE"} -> <<<<"date:..", arg.values[1]>>>>
      [] arg.key = "SUBJECT" -> <<<<"subject:">> \o quote(arg.values[1])>>
      [] arg.key \in {"BODY", "TEXT"} -> <<quote(arg.values[1])>>
      [] OTHER -> <<>>

\* parseSearchArguments with the queries made so far: the pieces of the
\* query string, or a panic (an index out of range)
RECURSIVE parseSearchLoop(_, _)
parseSearchLoop(args, query) ==
    IF args = <<>>
    THEN [panic |-> FALSE,
          query |-> <<"(">> \o joinQueries(IF query = <<>> THEN <<<<"*">>>> ELSE query, " ")
                           \o <<")">>]
    ELSE
    LET arg == Head(args)
        rest == Tail(args)
    IN  IF arg.key \in {"ALL", "NEW", "OLD", "RECENT", "HEADER", "SMALLER", "LARGER",
                        "SEQUENCESET", "UID"}
        THEN parseSearchLoop(rest, query)
        ELSE
        LET q1 == query \o keyFragment(arg)
            sub == parseSearchLoop(arg.children, <<>>)
            left == parseSearchLoop(<<arg.children[1]>>, <<>>)
            right == parseSearchLoop(<<arg.children[2]>>, <<>>)
        IN  IF arg.group /\ sub.panic THEN QueryPanic
            ELSE IF arg.or /\ Len(arg.children) < 2 THEN QueryPanic
            ELSE IF arg.or /\ (left.panic \/ right.panic) THEN QueryPanic
            ELSE
            LET q2 == IF arg.group
                      THEN Append(q1, IF Len(arg.children) = 1
                                      \* elide parenthesis
                                      THEN SubSeq(sub.query, 2, Len(sub.query) - 1)
                                      ELSE sub.query)
                      ELSE q1
                q3 == IF arg.or
                      THEN Append(q2, left.query \o <<" OR ">> \o right.query)
                      ELSE q2
                justAdded == q3[Len(q3)]
            IN  IF q3 = <<>> THEN parseSearchLoop(rest, q3)
                ELSE IF ~arg.not THEN parseSearchLoop(rest, q3)
                \* justAdded[0] of an empty string
                ELSE IF justAdded = <<>> THEN QueryPanic
                ELSE parseSearchLoop(rest,
                        [q3 EXCEPT ![Len(q3)] =
                            IF Head(justAdded) = "-" THEN Tail(justAdded)
                            ELSE <<"-">> \o justAdded])

parseSearchArguments(args) ==
    LET parsed == parseSearchLoop(args, <<>>)
    IN  [panic |-> parsed.panic,
         queryString |-> IF parsed.panic THEN "" ELSE queryString(parsed.query)]

\* the tokens of the lines that are tried in every order
SearchTokens == {"(", ")", "OR", "NOT", "ALL", "SEEN", "FROM"}

RECURSIVE TokenLines(_)
TokenLines(n) ==
    IF n = 0 THEN {<<>>}
    ELSE TokenLines(n - 1)
         \cup {Append(l, t) : l \in {k \in TokenLines(n - 1) : Len(k) = n - 1},
                              t \in SearchTokens}

\* lines that take the other branches
OtherSearchLines ==
    {<<k>> : k \in FlagKeys}
    \cup {<<"KEYWORD", "DELETED">>, <<"SMALLER", "1024">>, <<"SMALLER", "INVALID">>,
          <<"SENTON", "20-Jan-1830">>, <<"BEFORE", "INVALID">>,
          <<"HEADER", "KEY", "VALUE">>, <<"HEADER", "KEYONLY">>,
          <<"DELETED", "UID", "1:3", "2,4:*">>, <<"UID", "INVALID">>, <<"BORKED">>,
          <<"SUBJECT", "subject">>, <<"BODY", "text">>, <<"TO", "a@b.com">>,
          <<"UNKEYWORD", "x">>, <<"SINCE", "20-Jan-1830">>,
          <<"SEEN", "NOT", "UNANSWERED">>, <<"NOT", "DRAFT">>,
          <<"SEEN", "NOT", "FROM", "a@b.com">>, <<"SEEN", "(", "ALL", ")">>,
          <<"OR", "DELETED", "NOT", "SEEN">>, <<"(", "SEEN", "FLAGGED", ")">>,
          <<"OR", "DELETED", "(", "OR", "SUBJECT", "subject", "FROM", "a@b.com", ")">>,
          <<"(", "ALL", "NOT", "(", "DELETED", "(", "NOT", "SEEN", ")", ")", ")">>}

SearchLines == TokenLines(MaxTokens) \cup OtherSearchLines

NoSearchArguments == [err |-> FALSE, message |-> "", args |-> <<>>]

NoQuery == [panic |-> FALSE, queryString |-> ""]

SearchInit ==
    /\ searchLine \in SearchLines
    /\ searchPc = "line"
    /\ searchArgs = NoSearchArguments
    /\ searchQuery = NoQuery

\* no SEARCH under way
SearchIdle ==
    /\ searchLine = <<>>
    /\ searchPc = "line"
    /\ searchArgs = NoSearchArguments
    /\ searchQuery = NoQuery

\* searchCmd.execute: the arguments are aggregated
SearchAggregate ==
    /\ searchPc = "line"
    /\ searchArgs' = aggregateSearchArguments(searchLine)
    /\ searchPc' = "aggregated"
    /\ UNCHANGED <<searchLine, searchQuery, notSearchVars>>

\* NotmuchMailstore.Search: the arguments are compiled into the query
SearchCompile ==
    /\ searchPc = "aggregated"
    /\ ~searchArgs.err
    /\ searchQuery' = parseSearchArguments(searchArgs.args)
    /\ searchPc' = "compiled"
    /\ UNCHANGED <<searchLine, searchArgs, notSearchVars>>

SearchNext ==
    \/ SearchAggregate
    \/ SearchCompile

---------------------------------------------------------------------------
(* lexer.go: the lexer over the bytes of a connection.  A lexer value has   *)
(* the line being lexed, the index of the current character (from 1), done  *)
(* and the bytes its reader has not read yet.  A character is a one-byte    *)
(* string; a word of letters ("BODY", "TEXT") stands for its letters, which *)
(* every function here treats alike.                                        *)

lf == "\n"

cr == "\r"

space == " "

digits == <<"0", "1", "2", "3", "4", "5", "6", "7", "8", "9">>

\* c is one of the characters '0' to '9'
isDigit(c) == \E i \in DOMAIN digits : digits[i] = c

\* textproto.Reader.ReadLineBytes: the bytes up to the next line feed, the
\* line feed and a carriage return before it left out
RECURSIVE ReadLineBytes(_)
ReadLineBytes(stream) ==
    IF stream = <<>> THEN [line |-> <<>>, rest |-> <<>>]
    ELSE IF Head(stream) = lf THEN [line |-> <<>>, rest |-> Tail(stream)]
    ELSE IF Head(stream) = cr /\ Len(stream) > 1 /\ stream[2] = lf
    THEN [line |-> <<>>, rest |-> SubSeq(stream, 3, Len(stream))]
    ELSE LET r == ReadLineBytes(Tail(stream))
         IN  [line |-> <<Head(stream)>> \o r.line, rest |-> r.rest]

\* createLexer
createLexer(stream) == [line |-> <<>>, idx |-> 1, done |-> FALSE, stream |-> stream]

\* lexer.newLine: an empty line gives io.EOF and leaves the lexer as it was
lexerNewLine(l) ==
    LET read == ReadLineBytes(l.stream)
    IN  IF read.line = <<>> THEN [l EXCEPT !.stream = read.rest]
        ELSE [line |-> read.line, idx |-> 1, done |-> FALSE, stream |-> read.rest]

\* lexer.current
current(l) == IF l.done THEN lf ELSE l.line[l.idx]

\* lexer.consume: the lexer moved by one byte
consume(l) ==
    IF l.idx >= Len(l.line) THEN [l EXCEPT !.done = TRUE]
    ELSE [l EXCEPT !.idx = @ + 1]

\* lexer.skipSpace
RECURSIVE skipSpace(_)
skipSpace(l) == IF current(l) = space THEN skipSpace(consume(l)) ELSE l

\* lexer.nonquoted: the characters up to a space, a control character or
\* one of the exceptions
RECURSIVE nonquoted(_, _)
nonquoted(l, exceptions) ==
    LET c == current(l)
    IN  IF c \in {space, lf, cr} \/ c \in exceptions
        THEN [ok |-> FALSE, value |-> <<>>, l |-> l]
        ELSE LET more == nonquoted(consume(l), exceptions)
             IN  [ok |-> TRUE, value |-> <<c>> \o more.value, l |-> more.l]

\* strconv.Atoi of the characters: an optional sign and decimal digits
strconvAtoi(chars) ==
    LET signed == chars # <<>> /\ Head(chars) \in {"-", "+"}
        figures == IF signed THEN Tail(chars) ELSE chars
        RECURSIVE value(_)
        value(fs) ==
            IF fs = <<>> THEN 0
            ELSE 10 * value(SubSeq(fs, 1, Len(fs) - 1))
                 + (CHOOSE d \in 0..9 : digits[d + 1] = fs[Len(fs)])
    IN  IF figures = <<>> \/ \E i \in DOMAIN figures : ~isDigit(figures[i])
        THEN [err |-> TRUE, n |-> 0]
        ELSE [err |-> FALSE,
              n |-> IF signed /\ Head(chars) = "-" THEN 0 - value(figures)
                    ELSE value(figures)]

\* the zero value of a fetchArgument
fetchArgument ==
    [text |-> "", section |-> "", fields |-> <<>>, part |-> <<>>,
     offset |-> 0, length |-> 0]

knownBodySections == {"", "HEADER", "HEADER.FIELDS", "HEADER.FIELDS.NOT", "TEXT", "MIME"}

\* strings.Split of characters, each element its characters
RECURSIVE splitChars(_, _)
splitChars(cs, sep) ==
    IF cs = <<>> THEN <<<<>>>>
    ELSE IF Head(cs) = sep THEN <<<<>>>> \o splitChars(Tail(cs), sep)
    ELSE LET rest == splitChars(Tail(cs), sep)
         IN  <<<<Head(cs)>> \o Head(rest)>> \o Tail(rest)

\* the loop of sectionArgs that gathers the section-part
RECURSIVE sectionPartString(_)
sectionPartString(l) ==
    LET c == current(l)
    IN  IF c \in {"1", "2", "3", "4", "5", "6", "7", "8"} \/ c = "."
        THEN LET more == sectionPartString(consume(l))
             IN  [value |-> <<c>> \o more.value, l |-> more.l]
        ELSE [value |-> <<>>, l |-> l]

\* the loop of sectionArgs that gathers the fields
RECURSIVE sectionFields(_)
sectionFields(l) ==
    LET spaced == skipSpace(l)
        field == nonquoted(spaced, {"(", ")", "%", "*", "\\", "{"})
        more == sectionFields(field.l)
    IN  IF current(spaced) = ")" THEN [ok |-> TRUE, fields |-> <<>>, l |-> spaced]
        ELSE IF ~field.ok THEN [ok |-> FALSE, fields |-> <<>>, l |-> field.l]
        ELSE [more EXCEPT !.fields = <<Str(field.value)>> \o @]

\* the partial range of sectionArgs, the lexer just behind the ']'
sectionRange(l, s) ==
    LET offset == nonquoted(consume(l), {".", ">"})
        offsetInt == strconvAtoi(offset.value)
        withOffset == [s EXCEPT !.offset = offsetInt.n]
        c == current(offset.l)
        length == nonquoted(consume(offset.l), {">"})
        lengthInt == strconvAtoi(length.value)
        withLength == [withOffset EXCEPT !.length = lengthInt.n]
    IN  IF current(l) # "<" THEN [ok |-> TRUE, arg |-> s, l |-> l]
        ELSE IF ~offset.ok THEN [ok |-> FALSE, arg |-> s, l |-> offset.l]
        ELSE IF offsetInt.err THEN [ok |-> FALSE, arg |-> withOffset, l |-> offset.l]
        ELSE IF c = ">" THEN [ok |-> TRUE, arg |-> withOffset, l |-> consume(offset.l)]
        ELSE IF c # "." THEN [ok |-> FALSE, arg |-> withOffset, l |-> offset.l]
        ELSE IF ~length.ok THEN [ok |-> FALSE, arg |-> withOffset, l |-> length.l]
        ELSE IF lengthInt.err \/ lengthInt.n = 0
        THEN [ok |-> FALSE, arg |-> withLength, l |-> length.l]
        ELSE [ok |-> TRUE, arg |-> withLength, l |-> consume(length.l)]

\* lexer.sectionArgs, the current character being the '['
sectionArgs(l) ==
    LET gathered == sectionPartString(consume(l))
        \* Elide last dot
        partString == IF gathered.value # <<>> /\ gathered.value[Len(gathered.value)] = "."
                      THEN SubSeq(gathered.value, 1, Len(gathered.value) - 1)
                      ELSE gathered.value
        split == splitChars(partString, ".")
        part == IF gathered.value = <<>> THEN <<>>
                ELSE [i \in DOMAIN split |-> strconvAtoi(split[i]).n]
        name == nonquoted(gathered.l, {space, "]"})
        sectionName == Str(name.value)
        spaced == skipSpace(name.l)
        listed == IF current(spaced) = "(" THEN sectionFields(consume(spaced))
                  ELSE [ok |-> TRUE, fields |-> <<>>, l |-> spaced]
        \* the ')' of the fields is consumed
        behind == IF current(spaced) = "(" THEN consume(listed.l) ELSE listed.l
        s == [fetchArgument EXCEPT !.part = part, !.section = sectionName,
                                   !.fields = listed.fields]
        failed == [ok |-> FALSE, arg |-> fetchArgument, l |-> gathered.l]
    IN  IF gathered.value # <<>> /\ \E i \in DOMAIN split : strconvAtoi(split[i]).err
        THEN failed
        ELSE IF ~name.ok /\ current(name.l) # "]" THEN failed
        ELSE IF sectionName \notin knownBodySections THEN failed
        ELSE IF sectionName = "MIME" /\ part = <<>> THEN failed
        ELSE IF ~listed.ok THEN failed
        ELSE IF s.fields # <<>> /\ sectionName \notin {"HEADER.FIELDS", "HEADER.FIELDS.NOT"}
        THEN failed
        ELSE IF s.fields = <<>> /\ sectionName \in {"HEADER.FIELDS", "HEADER.FIELDS.NOT"}
        THEN failed
        \* Elide ']'
        ELSE sectionRange(consume(behind), s)

FetchError(message) == [err |-> TRUE, message |-> message, sequenceSet |-> "", args |-> <<>>]

\* the accum loop of fetchArguments
RECURSIVE fetchAccum(_, _, _, _)
fetchAccum(l, args, hasList, numFields) ==
    LET spaced == skipSpace(l)
        att == nonquoted(spaced, {"[", ")"})
        next == Str(att.value)
        named(texts) == [i \in DOMAIN texts |-> [fetchArgument EXCEPT !.text = texts[i]]]
        c == current(att.l)
        section == sectionArgs(att.l)
    IN  IF current(spaced) = "("
        THEN fetchAccum(consume(spaced), args, TRUE, numFields)
        ELSE IF current(spaced) \in {")", lf}
        THEN IF ~hasList /\ numFields > 1
             THEN FetchError("Multiple arguments without parenthesis")
             ELSE [err |-> FALSE, message |-> "", sequenceSet |-> "", args |-> args]
        ELSE IF ~att.ok THEN FetchError("Error getting next fetch-att")
        ELSE IF next \in {"ENVELOPE", "FLAGS", "INTERNALDATE", "RFC822", "RFC822.HEADER",
                          "RFC822.SIZE", "RFC822.TEXT", "BODYSTRUCTURE", "UID"}
        THEN fetchAccum(att.l, args \o named(<<next>>), hasList, numFields + 1)
        ELSE IF next = "ALL"
        THEN fetchAccum(att.l,
                        args \o named(<<"FLAGS", "INTERNALDATE", "RFC822.SIZE", "ENVELOPE">>),
                        hasList, numFields + 1)
        ELSE IF next = "FAST"
        THEN fetchAccum(att.l, args \o named(<<"FLAGS", "INTERNALDATE", "RFC822.SIZE">>),
                        hasList, numFields + 1)
        ELSE IF next = "FULL"
        THEN fetchAccum(att.l,
                        args \o named(<<"FLAGS", "INTERNALDATE", "RFC822.SIZE",
                                        "ENVELOPE", "BODY">>),
                        hasList, numFields + 1)
        ELSE IF next \in {"BODY", "BODY.PEEK"}
        THEN IF c = space
             THEN IF next = "BODY"
                  THEN fetchAccum(att.l, args \o named(<<next>>), hasList, numFields + 1)
                  ELSE FetchError("Unexpected space after " \o next)
             ELSE IF c # "[" THEN FetchError("Expected '[' after " \o next)
             ELSE IF ~section.ok THEN FetchError("Couldn't extract section")
             ELSE fetchAccum(section.l, Append(args, [section.arg EXCEPT !.text = next]),
                             hasList, numFields + 1)
        ELSE FetchError("Unknown section-text: " \o next)

\* lexer.fetchArguments
fetchArguments(l) ==
    LET set == nonquoted(skipSpace(l), {space})
        sequenceSet == Str(set.value)
    IN  IF ~set.ok \/ ~isValid(sequenceSet) THEN FetchError("No sequence set")
        ELSE [fetchAccum(set.l, <<>>, FALSE, 0) EXCEPT !.sequenceSet = sequenceSet]

\* the zero value of an element
element == [stringValue |-> "", children |-> <<>>]

\* lexer.listStrings and its read loop, which has the elements read so far
\* and the element e being read
RECURSIVE listStrings(_)
RECURSIVE listStringsRead(_, _, _)
listStringsRead(l, elements, e) ==
    LET b == current(l)
        sub == listStrings(l)
    IN  IF b = lf THEN [ok |-> FALSE, elements |-> <<>>, l |-> l]
        ELSE IF b = "("
        THEN IF ~sub.ok THEN [ok |-> FALSE, elements |-> <<>>, l |-> sub.l]
             ELSE listStringsRead(consume(sub.l),
                                  Append(elements, [e EXCEPT !.children = sub.elements]),
                                  element)
        ELSE IF b = space THEN listStringsRead(consume(l), Append(elements, e), element)
        \* Discard last ')'
        ELSE IF b = ")" THEN [ok |-> TRUE, elements |-> Append(elements, e), l |-> consume(l)]
        ELSE listStringsRead(consume(l), elements, [e EXCEPT !.stringValue = @ \o b])

listStrings(l) ==
    LET spaced == skipSpace(l)
    IN  IF current(spaced) # "(" THEN [ok |-> FALSE, elements |-> <<>>, l |-> spaced]
        ELSE listStringsRead(consume(spaced), <<>>, element)

\* lexer.qstring, the lexer just behind the opening quote
RECURSIVE qstring(_)
qstring(l) ==
    LET c == current(l)
        escaped == consume(l)
        more == qstring(consume(IF c = "\\" THEN escaped ELSE l))
    IN  IF c = "\"" THEN [err |-> FALSE, value |-> <<>>, l |-> consume(l)]
        ELSE IF c \in {cr, lf} THEN [err |-> TRUE, value |-> <<>>, l |-> l]
        ELSE [more EXCEPT !.value = IF more.err THEN <<>>
                                    ELSE <<IF c = "\\" THEN current(escaped) ELSE c>> \o @]

\* lexer.literalLength, the lexer just behind the '{'
RECURSIVE literalLengthBuffer(_)
literalLengthBuffer(l) ==
    LET c == current(l)
        more == literalLengthBuffer(consume(l))
    IN  IF c = "}" THEN [err |-> FALSE, value |-> <<>>, l |-> l]
        ELSE IF ~isDigit(c) THEN [err |-> TRUE, value |-> <<>>, l |-> l]
        ELSE [more EXCEPT !.value = <<c>> \o @]

literalLength(l) ==
    LET buffer == literalLengthBuffer(l)
        length == strconvAtoi(buffer.value)
    IN  IF buffer.err THEN [err |-> TRUE, length |-> 0, l |-> buffer.l]
        \* Consume one more so the rest can start at the rest of the content
        ELSE IF length.err \/ length.n <= 0
        THEN [err |-> TRUE, length |-> 0, l |-> consume(buffer.l)]
        ELSE [err |-> FALSE, length |-> length.n, l |-> consume(buffer.l)]

\* the characters left on the current line
RECURSIVE drainLine(_)
drainLine(l) ==
    IF current(l) = lf THEN <<>> ELSE <<current(l)>> \o drainLine(consume(l))

\* a literalRest that does not start on a new line behind the literal
lexerLiteralRestNoNewLine(l, length) ==
    LET drained == drainLine(l)
        wanted == length - Len(drained)
        n == IF Len(l.stream) < wanted THEN Len(l.stream) ELSE wanted
    IN  [err |-> n # wanted, panic |-> FALSE,
         value |-> drained \o SubSeq(l.stream, 1, n),
         l |-> [l EXCEPT !.stream = SubSeq(l.stream, n + 1, Len(l.stream))]]

\* lexer.literalRest on the bytes of the reader: the current line is
\* drained into the literal, the rest is read from the reader, and the lexer
\* starts again on the line behind the literal
lexerLiteralRest(l, length) ==
    LET drained == drainLine(l)
        wanted == length - Len(drained)
        n == IF Len(l.stream) < wanted THEN Len(l.stream) ELSE wanted
        \* the drain ended at the end of the line, where done is set
        reinstalled == [line |-> <<>>, idx |-> 1, done |-> TRUE,
                        stream |-> SubSeq(l.stream, n + 1, Len(l.stream))]
    IN  \* fill[0] of an empty slice
        IF Len(drained) > length
        THEN [err |-> TRUE, panic |-> TRUE, value |-> <<>>, l |-> l]
        ELSE [err |-> n # wanted, panic |-> FALSE,
              value |-> drained \o SubSeq(l.stream, 1, n),
              l |-> lexerNewLine(reinstalled)]

\* lexer.literal
literal(l) ==
    LET length == literalLength(l)
    IN  IF length.err THEN [err |-> TRUE, panic |-> FALSE, value |-> <<>>, l |-> length.l]
        ELSE lexerLiteralRest(length.l, length.length)

astringExceptionsChar == {space, "(", ")", "%", "*", "\\", "{"}

\* lexer.generalString
generalString(l, exceptions) ==
    LET quoted == qstring(consume(l))
        braced == literal(consume(l))
        bare == nonquoted(l, exceptions)
    IN  IF current(l) = "\""
        THEN [ok |-> ~quoted.err, panic |-> FALSE, value |-> quoted.value, l |-> quoted.l]
        ELSE IF current(l) = "{"
        THEN [ok |-> ~braced.err, panic |-> braced.panic, value |-> braced.value,
              l |-> braced.l]
        ELSE [ok |-> bare.ok, panic |-> FALSE, value |-> bare.value, l |-> bare.l]

\* lexer.astring on the bytes of the reader
lexerAstring(l) == generalString(skipSpace(l), astringExceptionsChar)

---------------------------------------------------------------------------
(* The lexer run on its own, as the tests of lexer_test.go run it: a lexer  *)
(* is created over the bytes of a reader, newLine is called and one of the  *)
(* lexer's functions is applied.                                            *)

\* the longest section-part tried, in characters
MaxPart == 3

\* the deepest list tried
MaxNesting == 2

\* the longest literal tried, in bytes
MaxLiteral == 3

RECURSIVE CharsUpTo(_, _)
\* the sequences of at most n characters of an alphabet
CharsUpTo(alphabet, n) ==
    IF n = 0 THEN {<<>>}
    ELSE CharsUpTo(alphabet, n - 1)
         \cup {Append(s, c) : s \in {t \in CharsUpTo(alphabet, n - 1) : Len(t) = n - 1},
                              c \in alphabet}

\* the partial ranges tried behind the ']'
FetchRanges ==
    {<<>>, <<"<", "0", ">">>, <<"<", "1", "2", ">">>, <<"<", "1", "0", ".", "2", "8", ">">>,
     <<"<", "-", "1", ">">>, <<"<", "0", ".", "-", "5", ">">>, <<"<", "0", ".", "0", ">">>,
     <<"<">>, <<">">>, <<"<", "1", ".", ">">>, <<"<", ".", "1", ">">>,
     <<"<", "1", ",", "1", ">">>}

\* FETCH lines with one BODY or BODY.PEEK argument
SectionLines ==
    {<<"7", space, text, "[">> \o part \o name \o <<"]">> \o range :
        text \in {"BODY", "BODY.PEEK"},
        part \in CharsUpTo({"0", "1", "9", "."}, MaxPart),
        name \in {<<>>, <<"TEXT">>, <<"MIME">>},
        range \in FetchRanges}

\* FETCH lines that take the other branches
OtherFetchLines ==
    {<<"7", space, "INTERNALDATE">>,
     <<"7", space, "(", "ENVELOPE", space, "BODYSTRUCTURE", ")">>,
     <<"7", space, "ALL">>, <<"7", space, "FAST">>, <<"7", space, "(", "FULL", ")">>,
     <<"7", space, "BODY">>, <<"7", space, "(", "BODY", space, "UID", ")">>,
     <<"7", space, "BODY.PEEK", space, "UID">>,
     <<"7", space, "BODY", "[", "1", ".", "4", ".", "HEADER.FIELDS", space,
       "(", "DATE", space, "FROM", ")", "]", "<", "1", "0", ".", "2", "8", ">">>,
     <<"7", space, "BODY.PEEK", "[", "HEADER", space, "(", "DATE", ")", "]">>,
     <<"7", space, "BODY", "[", "HEADER.FIELDS", "]">>,
     <<"7", space, "BODY", "[", "HEADER.FIELDS", space, "(", "DATE">>,
     <<"7", space, "BODY", "[", "TEXT">>, <<"7", space, "BODY", "[", "BOGUS", "]">>,
     <<"7", space, "FAST", space, "ENVELOPE">>, <<"7", space, "DELETED">>,
     <<"7", space, "MIME">>, <<"1", ":", space, "ALL">>, <<"ALL">>, <<"7", space, "[">>}

\* the lists of at most two items, each an atom or a list, nested to depth
\* d, each with the characters that write it
RECURSIVE ListsOfDepth(_)
ListsOfDepth(d) ==
    LET atoms == {[tree |-> [element EXCEPT !.stringValue = a], chars |-> <<a>>] :
                    a \in {"A"}}
        items == IF d = 0 THEN atoms
                 ELSE atoms \cup {[tree |-> [element EXCEPT !.children = sub.tree],
                                   chars |-> sub.chars] : sub \in ListsOfDepth(d - 1)}
    IN  {[tree |-> <<i.tree>>, chars |-> <<"(">> \o i.chars \o <<")">>] : i \in items}
        \cup {[tree |-> <<i.tree, j.tree>>,
               chars |-> <<"(">> \o i.chars \o <<space>> \o j.chars \o <<")">>] :
                 i \in items, j \in items}

\* lines that are no list, or a list that is not closed
BrokenLists ==
    {<<space>>, <<"A", space, "B">>, <<"(", "A">>, <<"(", "A", space, "(", "B", ")">>,
     <<"(", "(", "A", ")">>, <<"A", ")">>, <<")">>, <<"(", "A", space>>}

\* what may follow a literal, with the token an astring reads there first
LiteralTails ==
    {[chars |-> <<>>, token |-> <<>>],
     [chars |-> <<"a", "b", "c">>, token |-> <<"a", "b", "c">>],
     [chars |-> <<space, "x", space, "y", cr, lf>>, token |-> <<"x">>],
     [chars |-> <<"a", "b", cr, lf, "c", "d", cr, lf>>, token |-> <<"a", "b">>],
     [chars |-> <<cr, lf, "a", "b">>, token |-> <<>>]}

NoLexed == [fetch |-> FetchError(""), list |-> [ok |-> FALSE, elements |-> <<>>],
            first |-> [ok |-> FALSE, panic |-> FALSE, value |-> <<>>],
            l |-> createLexer(<<>>),
            second |-> [ok |-> FALSE, panic |-> FALSE, value |-> <<>>]]

LexInput(kind, stream) ==
    [kind |-> kind, stream |-> stream, tree |-> <<>>, n |-> 0, bytes |-> <<>>,
     tail |-> <<>>, token |-> <<>>]

LexerInit ==
    /\ lexIn \in
         {LexInput("fetch", line_) : line_ \in SectionLines \cup OtherFetchLines}
         \cup {[LexInput("list", list.chars) EXCEPT !.tree = list.tree] :
                 list \in ListsOfDepth(MaxNesting)}
         \cup {LexInput("list", line_) : line_ \in BrokenLists}
         \cup {[LexInput("literal",
                         <<"{", digits[n + 1], "}", cr, lf>> \o bytes \o tail.chars)
                  EXCEPT !.n = n, !.bytes = bytes, !.tail = tail.chars,
                         !.token = tail.token] :
                 n \in 1..MaxLiteral,
                 bytes \in CharsUpTo({"a", lf, space}, MaxLiteral),
                 tail \in LiteralTails}
    /\ lexPc = "input"
    /\ lexOut = NoLexed

\* no lexer run on its own
LexerIdle ==
    /\ lexIn = LexInput("fetch", <<"ALL">>)
    /\ lexPc = "input"
    /\ lexOut = NoLexed

\* TestFetchArguments: fetchArguments on the first line
LexFetchArguments ==
    /\ lexPc = "input"
    /\ lexIn.kind = "fetch"
    /\ lexOut' = [NoLexed EXCEPT
                    !.fetch = fetchArguments(lexerNewLine(createLexer(lexIn.stream)))]
    /\ lexPc' = "lexed"
    /\ UNCHANGED <<lexIn, notLexerVars>>

\* TestLexesList: listStrings on the first line
LexListStrings ==
    /\ lexPc = "input"
    /\ lexIn.kind = "list"
    /\ LET lexed == listStrings(lexerNewLine(createLexer(lexIn.stream)))
       IN  lexOut' = [NoLexed EXCEPT
                        !.list = [ok |-> lexed.ok, elements |-> lexed.elements]]
    /\ lexPc' = "lexed"
    /\ UNCHANGED <<lexIn, notLexerVars>>

\* TestReadsLiteralAndRest: two astrings, the first of them a literal
LexLiteral ==
    /\ lexPc = "input"
    /\ lexIn.kind = "literal"
    /\ LET first_ == lexerAstring(lexerNewLine(createLexer(lexIn.stream)))
           second_ == lexerAstring(first_.l)
       IN  lexOut' = [NoLexed EXCEPT
                        !.first = [ok |-> first_.ok, panic |-> first_.panic,
                                   value |-> first_.value],
                        !.l = first_.l,
                        !.second = IF first_.panic THEN NoLexed.second
                                   ELSE [ok |-> second_.ok, panic |-> second_.panic,
                                         value |-> second_.value]]
    /\ lexPc' = "lexed"
    /\ UNCHANGED <<lexIn, notLexerVars>>

LexerNext ==
    \/ LexFetchArguments
    \/ LexListStrings
    \/ LexLiteral

---------------------------------------------------------------------------
(* The connection driver: client.handle *)

SessionInit ==
    /\ listener \in {unencryptedLevel, starttlsLevel}
    /\ pc = "accepted"
    /\ st = notAuthenticated
    /\ mailbox = NilMailbox
    /\ encryption = unencryptedLevel
    /\ reader = "plain"
    /\ line = EndOfInput
    /\ command = NoCommand
    /\ response = NoResponse
    /\ wrote = FALSE
    /\ calls = <<>>
    /\ tlsStarted = FALSE
    /\ bufin = <<>>
    /\ io = <<>>

\* a connection that no client has opened
SessionIdle == SessionInit /\ listener = unencryptedLevel

\* Write the welcome message
Greet ==
    /\ pc = "accepted"
    /\ \E writeOk \in BOOLEAN :
         /\ response' = ok("*", "IMAP4rev1 Service Ready")
         /\ wrote' = writeOk
         /\ pc' = IF writeOk THEN "next" ELSE "closed"
    /\ UNCHANGED <<listener, st, mailbox, encryption, reader, line, command,
                   calls, tlsStarted, bufin, io, notSessionVars>>

\* Get the next IMAP command; a failure is answered by fatalResponse and ends
\* the connection
ParseNext ==
    /\ pc = "next"
    /\ \E sent \in Sendable, available \in 0..LiteralLength, writeOk \in BOOLEAN :
         LET got == newLine(reader, bufin, sent)
             read == got.line
             p == parserNextRead(read, available)
         IN  /\ reader = "tls" => Len(sent) = 1
             /\ line' = read
             /\ bufin' = got.bufin
             /\ io' = IF parserReadsLiteral(read)
                      THEN <<LiteralEvent(Len(read.args[read.literalArg]))>>
                      ELSE <<>>
             /\ IF p.err
                THEN /\ command' = NoCommand
                     /\ response' = fatalResponse("Invalid input")
                     /\ wrote' = writeOk
                     /\ pc' = "closed"
                ELSE /\ command' = p.cmd
                     /\ response' = NoResponse
                     /\ wrote' = FALSE
                     /\ pc' = "execute"
    /\ calls' = <<>>
    /\ UNCHANGED <<listener, st, mailbox, encryption, reader, tlsStarted,
                   notSessionVars>>

\* One pass of the inner loop for the result r of command.execute: replace the
\* buffers, write the response, close the connection or go on
Execute(r, writeOk) ==
    /\ command' = r.cmd
    /\ st' = r.sess.st
    /\ mailbox' = r.sess.mailbox
    /\ encryption' = r.sess.encryption
    /\ calls' = r.calls
    /\ response' = r.response
    /\ tlsStarted' = (tlsStarted \/ command.kind = "STARTTLS")
    /\ io' = io \o (IF r.literal > 0 THEN <<LiteralEvent(r.literal)>> ELSE <<>>)
                \o (IF ~r.panic /\ writeOk /\ r.response = continuation(r.response.message)
                    THEN <<ContinuationEvent>> ELSE <<>>)
    /\ IF r.panic
       THEN /\ pc' = "panicked"
            /\ wrote' = FALSE
            /\ reader' = reader
       ELSE /\ reader' = IF r.response.bufReplacement THEN "tls" ELSE reader
            /\ wrote' = writeOk
            /\ pc' = IF ~writeOk THEN "closed"
                     ELSE IF r.response.closeConnection THEN "closed"
                     ELSE IF r.response.done THEN "next"
                     ELSE "execute"
    /\ UNCHANGED <<listener, line, bufin, notSessionVars>>

Executing(kind) == pc = "execute" /\ command.kind = kind

ExecNoop ==
    /\ Executing("NOOP")
    /\ \E writeOk \in BOOLEAN : Execute(noopExecute(command, Session), writeOk)

ExecCheck ==
    /\ Executing("CHECK")
    /\ \E writeOk \in BOOLEAN : Execute(checkExecute(command, Session), writeOk)

ExecCapability ==
    /\ Executing("CAPABILITY")
    /\ \E writeOk \in BOOLEAN :
         Execute(capabilityExecute(command, Session, listener), writeOk)

ExecStarttls ==
    /\ Executing("STARTTLS")
    /\ \E writeOk \in BOOLEAN : Execute(starttlsExecute(command, Session), writeOk)

ExecLogin ==
    /\ Executing("LOGIN")
    /\ \E backendUp \in BOOLEAN, writeOk \in BOOLEAN :
         Execute(loginExecute(command, Session, backendUp), writeOk)

ExecLogout ==
    /\ Executing("LOGOUT")
    /\ \E writeOk \in BOOLEAN : Execute(logoutExecute(command, Session), writeOk)

ExecSelect ==
    /\ Executing("SELECT")
    /\ \E failing \in Failures, writeOk \in BOOLEAN :
         Execute(Recorded(selectMailboxExecute(command, Session, failing), failing), writeOk)

ExecStatus ==
    /\ Executing("STATUS")
    /\ \E failing \in Failures, writeOk \in BOOLEAN :
         Execute(Recorded(statusMailboxExecute(command, Session, failing), failing), writeOk)

ExecList ==
    /\ Executing("LIST")
    /\ \E failing \in Failures, writeOk \in BOOLEAN :
         Execute(Recorded(listExecute(command, Session, failing), failing), writeOk)

ExecUnknown ==
    /\ Executing("UNKNOWN")
    /\ \E writeOk \in BOOLEAN : Execute(unknownExecute(command, Session), writeOk)

ExecAppend ==
    /\ Executing("APPEND")
    /\ \E failing \in Failures, available \in 0..LiteralLength, writeOk \in BOOLEAN :
         Execute(Recorded(appendCmdExecute(command, Session, failing, available), failing), writeOk)

ExecSearch ==
    /\ Executing("SEARCH")
    /\ \E failing \in Failures, writeOk \in BOOLEAN :
         Execute(Recorded(searchCmdExecute(command, Session, failing), failing), writeOk)

ExecFetch ==
    /\ Executing("FETCH")
    /\ \E failing \in Failures, writeOk \in BOOLEAN :
         Execute(Recorded(fetchCmdExecute(command, Session, failing), failing), writeOk)

Next ==
    \/ Greet
    \/ ParseNext
    \/ ExecNoop
    \/ ExecCheck
    \/ ExecCapability
    \/ ExecStarttls
    \/ ExecLogin
    \/ ExecLogout
    \/ ExecSelect
    \/ ExecStatus
    \/ ExecList
    \/ ExecUnknown
    \/ ExecAppend
    \/ ExecSearch
    \/ ExecFetch

Init == SessionInit /\ StoreIdle /\ ServerIdle /\ SearchIdle /\ LexerIdle /\ SequenceIdle /\ BackendIdle

Spec == Init /\ [][Next]_vars

\* the notmuch mailstore on its own
InitStore == SessionIdle /\ StoreInit /\ ServerIdle /\ SearchIdle /\ LexerIdle /\ SequenceIdle /\ BackendIdle

SpecStore == InitStore /\ [][StoreNext]_vars

InitFetch == SessionIdle /\ StoreInit /\ ServerIdle /\ SearchIdle /\ LexerIdle /\ SequenceIdle /\ BackendIdle

SpecFetch == InitFetch /\ [][FetchNext]_vars

\* the listener on its own
InitServer == SessionIdle /\ StoreIdle /\ ServerInit /\ SearchIdle /\ LexerIdle /\ SequenceIdle /\ BackendIdle

SpecServer == InitServer /\ [][ServerNext]_vars

\* the arguments of a SEARCH on their own
InitSearch == SessionIdle /\ StoreIdle /\ ServerIdle /\ SearchInit /\ LexerIdle /\ SequenceIdle /\ BackendIdle

SpecSearch == InitSearch /\ [][SearchNext]_vars

\* the lexer on its own
InitLexer == SessionIdle /\ StoreIdle /\ ServerIdle /\ SearchIdle /\ LexerInit /\ SequenceIdle /\ BackendIdle

SpecLexer == InitLexer /\ [][LexerNext]_vars

\* the sequence-set evaluator on its own
InitSequence ==
    SessionIdle /\ StoreIdle /\ ServerIdle /\ SearchIdle /\ LexerIdle /\ SequenceInit
    /\ BackendIdle

SpecSequence == InitSequence /\ [][SequenceNext]_vars

\* the sessions' calls of the mailstore on their own
InitBackend ==
    SessionIdle /\ StoreIdle /\ ServerIdle /\ SearchIdle /\ LexerIdle /\ SequenceIdle
    /\ BackendInit

SpecBackend == InitBackend /\ [][BackendNext]_vars

---------------------------------------------------------------------------
(* Properties of the session state machine and the connection driver *)

\* the calls made contain a call of op
Invoked(op, made) == \E i \in DOMAIN made : made[i].op = op

\* one of the calls made returned an error
Errored(made) == \E i \in DOMAIN made : made[i].err

\* C1: if SELECT is executed in state Authenticated or Selected and the
\* mailstore reports that the mailbox exists, without a backend error, then
\* after the command the session state is Selected and the selected mailbox is
\* the mailbox the mailstore returned.
C1_SelectEntersSelected ==
    [][(/\ Executing("SELECT")
        /\ st \in {authenticated, selected}
        /\ Invoked("GetMailbox", calls')
        /\ ~Errored(calls')
        /\ ~GetMailbox(pathToSlice(command.args[1]), {}).mbox.nil)
       => (/\ st' = selected
           /\ mailbox' = GetMailbox(pathToSlice(command.args[1]), {}).mbox)]_vars

\* C2: SEARCH and FETCH executed in a state below Selected are answered with a
\* tagged BAD "<COMMAND> not selected", make no mailstore call and leave the
\* session state unchanged.
C2_SearchFetchNeedSelected ==
    [][((Executing("SEARCH") \/ Executing("FETCH")) /\ st < selected)
       => (/\ response'.tag = command.tag
           /\ response'.condition = "BAD"
           /\ response'.message = command.kind \o " not selected"
           /\ calls' = <<>>
           /\ st' = st)]_vars

C2_Witness ==
    /\ command.kind = "FETCH"
    /\ st = authenticated
    /\ response.condition = "BAD"
    /\ response.message = "FETCH not selected"
    /\ pc = "next"

\* C3: SELECT, STATUS and LIST executed in state Unauthenticated are answered
\* with a tagged BAD "<COMMAND> not authenticated", make no mailstore call and
\* leave the session state and the selected mailbox unchanged.
C3_MailboxCommandsNeedAuthentication ==
    [][((Executing("SELECT") \/ Executing("STATUS") \/ Executing("LIST"))
        /\ st = notAuthenticated)
       => (/\ response'.tag = command.tag
           /\ response'.condition = "BAD"
           /\ response'.message = command.kind \o " not authenticated"
           /\ calls' = <<>>
           /\ st' = st
           /\ mailbox' = mailbox)]_vars

C3_Witness ==
    /\ command.kind = "SELECT"
    /\ st = notAuthenticated
    /\ response.condition = "BAD"
    /\ response.message = "SELECT not authenticated"
    /\ pc = "next"

\* C4: APPEND executed in state Unauthenticated is rejected with a tagged BAD,
\* and the mailstore's append operation is not invoked for it, in neither of
\* its two execution phases.
C4_AppendNeedsAuthentication ==
    [][(Executing("APPEND") /\ st = notAuthenticated)
       => (/\ response'.tag = command.tag
           /\ response'.condition = "BAD"
           /\ ~Invoked("AppendMessage", calls'))]_vars

\* C5: LOGIN executed in state Authenticated or Selected is answered with a
\* tagged BAD "LOGIN already logged in", does not consult the authentication
\* backend and leaves the session state unchanged.
C5_LoginWhenLoggedIn ==
    [][(Executing("LOGIN") /\ st \in {authenticated, selected})
       => (/\ response'.tag = command.tag
           /\ response'.condition = "BAD"
           /\ response'.message = "LOGIN already logged in"
           /\ ~Invoked("Authenticate", calls')
           /\ st' = st)]_vars

C5_Witness ==
    /\ command.kind = "LOGIN"
    /\ st = authenticated
    /\ response.condition = "BAD"
    /\ response.message = "LOGIN already logged in"
    /\ pc = "next"

\* C6: LOGIN executed in state Unauthenticated moves the session to
\* Authenticated and answers OK if and only if the authentication backend
\* reports success; in every other case (wrong credentials or backend error)
\* the answer is a tagged NO and the state stays Unauthenticated.
C6_LoginFollowsBackend ==
    [][(Executing("LOGIN") /\ st = notAuthenticated)
       => (/\ Len(calls') = 1
           /\ calls'[1].op = "Authenticate"
           /\ response'.tag = command.tag
           /\ calls'[1].success <=>
                (<<Str(command.args[1]), Str(command.args[2])>> \in Credentials
                 /\ ~calls'[1].err)
           /\ IF calls'[1].success
              THEN st' = authenticated /\ response'.condition = "OK"
              ELSE st' = notAuthenticated /\ response'.condition = "NO")]_vars

C6_Witness ==
    /\ command.kind = "LOGIN"
    /\ Len(calls) = 1
    /\ calls[1].err
    /\ <<Str(command.args[1]), Str(command.args[2])>> \in Credentials
    /\ st = notAuthenticated
    /\ response.condition = "NO"
    /\ pc = "next"

\* C7: LOGOUT executed in any state sets the session state to Unauthenticated
\* and returns OK "LOGOUT completed" with the untagged line "BYE IMAP4rev1
\* Server logging out" and the close-after flag; once the driver has written
\* that response it reads and executes no further command on the connection.
C7_LogoutEndsSession ==
    [][/\ Executing("LOGOUT")
          => (/\ st' = notAuthenticated
              /\ response'.tag = command.tag
              /\ response'.condition = "OK"
              /\ response'.message = "LOGOUT completed"
              /\ response'.untagged = <<"BYE IMAP4rev1 Server logging out">>
              /\ response'.closeConnection
              /\ pc' = "closed")
       /\ ~(command.kind = "LOGOUT" /\ pc # "execute")]_vars

C7_Witness ==
    /\ command.kind = "LOGOUT"
    /\ pc = "closed"
    /\ wrote
    /\ response.message = "LOGOUT completed"
    /\ ~mailbox.nil
    /\ st = notAuthenticated

\* C8: on a session of a StartTls listener, every CAPABILITY executed before
\* any STARTTLS lists STARTTLS and LOGINDISABLED and not AUTH=PLAIN, and every
\* CAPABILITY executed after a STARTTLS lists AUTH=PLAIN and neither STARTTLS
\* nor LOGINDISABLED, whatever other commands are executed in between;
\* STARTTLS itself sets the session encryption to Tls and leaves the
\* authentication state unchanged.
C8_CapabilityFollowsStarttls ==
    [][/\ (Executing("CAPABILITY") /\ listener = starttlsLevel)
          => response'.untagged =
                <<IF tlsStarted THEN "CAPABILITY IMAP4rev1 AUTH=PLAIN"
                  ELSE "CAPABILITY IMAP4rev1 STARTTLS LOGINDISABLED">>
       /\ Executing("STARTTLS")
          => (encryption' = tlsLevel /\ st' = st)]_vars

C8_Witness ==
    /\ listener = starttlsLevel
    /\ tlsStarted
    /\ command.kind = "CAPABILITY"
    /\ st = authenticated
    /\ response.untagged = <<"CAPABILITY IMAP4rev1 AUTH=PLAIN">>
    /\ pc = "next"

\* C9: when a command line fails to parse but the stream can be
\* resynchronized (the line was read whole and carries a tag and a command
\* word, as LOGIN with a missing argument), the server answers with one tagged
\* BAD, leaves the session state unchanged, keeps the connection open and goes
\* on to read the next command line.
C9_ParseErrorKeepsConnection ==
    [][(/\ pc = "next"
        /\ ~line'.eof
        /\ line'.tag # ""
        /\ line'.verb # ""
        /\ line'.literal = 0
        /\ parserNext(line').err)
       => (/\ response'.tag = line'.tag
           /\ response'.condition = "BAD"
           /\ st' = st
           /\ pc' = "next")]_vars

\* C10: whenever a mailstore call made on behalf of SELECT, STATUS, LIST,
\* APPEND, SEARCH or FETCH returns an error, the response to that command is a
\* tagged NO whose text carries the command name, and the connection is closed
\* after the response is written.
C10_BackendErrorIsNoAndClose ==
    [][(/\ pc = "execute"
        /\ command.kind \in {"SELECT", "STATUS", "LIST", "APPEND", "SEARCH", "FETCH"}
        /\ Errored(calls'))
       => (/\ response'.tag = command.tag
           /\ response'.condition = "NO"
           /\ response'.message = command.kind \o " " \o BackendError
           /\ response'.closeConnection
           /\ pc' = "closed")]_vars

\* C11: for every literal that ends a command line, in an astring position of
\* any command, the server writes a continuation response before it reads
\* any of the literal's bytes from the connection.
C11_ContinuationBeforeLiteral ==
    \A i \in DOMAIN io :
        io[i].ev = "literal" => \E j \in 1..(i - 1) : io[j].ev = "continuation"


C13_BufferedPlaintextDropped ==
    [][(pc = "next" /\ tlsStarted)
       => (/\ bufin' = bufin
           /\ line'.via = "tls"
           /\ reader = "tls")]_vars

C13_Witness ==
    /\ tlsStarted
    /\ bufin # <<>>
    /\ line.via = "tls"
    /\ command.kind = "NOOP"
    /\ pc = "execute"


\* C14: in a single session, two consecutive UID lookups with no mutating
\* backend call between them give every message the same UID, and the first
\* UID lookup after an APPEND has completed gives the UIDs of the database
\* that contains the appended message.
C14_UidsStableAndRefreshed ==
    [][(lastOp' \in {"midToUid", "uidToMid"})
       => (/\ lastUids.some
              => \A mid \in db : lastUids'.uids[mid] = lastUids.uids[mid]
           /\ appended # {}
              => \A mid \in db :
                    lastUids'.uids[mid]
                      = UidByMid(midToUidTable(oldestFirst(db)), mid))]_vars

\* C15: if two SELECTs report the same UIDVALIDITY, every UID that denoted a
\* message at the first denotes the same message, or none, at the second,
\* whatever APPEND and STORE operations were performed in between.
C15_UidsKeepTheirMessage ==
    (first.some /\ latest.some /\ first.validity = latest.validity)
    => \A uid \in DOMAIN first.denotes :
          (uid >= 1 /\ uid \in DOMAIN latest.denotes)
          => latest.denotes[uid] = first.denotes[uid]


\* C16: after Server.Stop has been called, no connection accepted afterwards
\* is handed to a session handler.
C16_NoHandlerAfterStop ==
    \A c \in handled : ~c.afterStop


\* every argument with or = true, at any depth of the arguments, has exactly
\* two children
RECURSIVE OrsHaveTwoChildren(_)
OrsHaveTwoChildren(arguments) ==
    \A i \in DOMAIN arguments :
        /\ arguments[i].or => Len(arguments[i].children) = 2
        /\ OrsHaveTwoChildren(arguments[i].children)

\* C17: for every input that aggregateSearchArguments accepts, every argument
\* of the resulting tree with or = true has exactly two children.
C17_OrHasTwoChildren ==
    (searchPc # "line" /\ ~searchArgs.err) => OrsHaveTwoChildren(searchArgs.args)

\* the parentheses of tokens match: none is closed before it is opened and
\* none is left open
RECURSIVE Balanced(_, _)
Balanced(tokens, open) ==
    IF tokens = <<>> THEN open = 0
    ELSE IF Head(tokens) = "(" THEN Balanced(Tail(tokens), open + 1)
    ELSE IF Head(tokens) = ")" THEN open > 0 /\ Balanced(Tail(tokens), open - 1)
    ELSE Balanced(Tail(tokens), open)

\* the tokens a tree of arguments stands for, a group written between its
\* parentheses, its children in their order
RECURSIVE Written(_)
Written(arguments) ==
    IF arguments = <<>> THEN <<>>
    ELSE LET a == Head(arguments)
             own == IF a.group THEN <<"(">> \o Written(a.children) \o <<")">>
                    ELSE IF a.or THEN <<"OR">> \o Written(a.children)
                    ELSE (IF a.key = "SEQUENCESET" THEN <<>> ELSE <<a.key>>)
                         \o a.values \o Written(a.children)
         IN  own \o Written(Tail(arguments))

WithoutNot(tokens) == SelectSeq(tokens, LAMBDA t : t # "NOT")

\* C18: for every accepted SEARCH input with balanced parentheses, the tree
\* mirrors the bracket structure: an argument is a child of a group exactly
\* when it is written between the group's parentheses, and siblings keep
\* their source order; so writing the tree out, every group between its
\* parentheses, gives the input back (NOT, which is a flag of the argument
\* that follows, left aside).
C18_TreeMirrorsBrackets ==
    (searchPc # "line" /\ ~searchArgs.err /\ Balanced(searchLine, 0))
    => WithoutNot(Written(searchArgs.args)) = WithoutNot(searchLine)

\* C19: aggregateSearchArguments returns an error for every input whose
\* parentheses are mismatched: a '(' that is never closed, and a ')' that
\* has no earlier unmatched '('.
C19_MismatchedParenthesesRejected ==
    (searchPc # "line" /\ ~Balanced(searchLine, 0)) => searchArgs.err

\* C20: for each flag key of ANSWERED, UNANSWERED, DELETED, UNDELETED,
\* FLAGGED, UNFLAGGED, SEEN, UNSEEN, DRAFT and UNDRAFT, compiling the single
\* search argument of that key yields exactly the fragment of the mapping
\* table inside parentheses.
C20_FlagKeysCompileToTable ==
    LET table == [ANSWERED |-> "tag:answered", UNANSWERED |-> "-tag:answered",
                  DELETED |-> "tag:deleted", UNDELETED |-> "-tag:deleted",
                  FLAGGED |-> "tag:starred", UNFLAGGED |-> "-tag:starred",
                  SEEN |-> "-tag:unread", UNSEEN |-> "tag:unread",
                  DRAFT |-> "tag:draft", UNDRAFT |-> "-tag:draft"]
    IN  \A key \in DOMAIN table :
            (searchPc = "compiled" /\ searchLine = <<key>>)
            => (/\ ~searchQuery.panic
                /\ searchQuery.queryString = "(" \o table[key] \o ")")


\* the argument appends nothing to the query: it is skipped, or the switch
\* on its key has no case for it
EmitsNothing(arg) ==
    /\ ~arg.group
    /\ ~arg.or
    /\ \/ arg.key \in {"ALL", "NEW", "OLD", "RECENT", "HEADER", "SMALLER", "LARGER",
                       "SEQUENCESET", "UID"}
       \/ keyFragment(arg) = <<>>

\* the fragments a list of arguments compiles to, joined, without the
\* parentheses around them; nothing when no argument emits a fragment
Fragments(arguments) ==
    IF \A k \in DOMAIN arguments : EmitsNothing(arguments[k]) THEN <<>>
    ELSE LET q == parseSearchLoop(arguments, <<>>).query
         IN  SubSeq(q, 2, Len(q) - 1)

\* C21: when a list of search arguments is compiled, the NOT flag of an
\* argument toggles the leading '-' of the fragment of that argument and
\* changes nothing else: the query is the fragments of the arguments before
\* it, its own fragment toggled (none when it emits none) and the fragments
\* of the arguments behind it.
C21_NotTogglesOwnFragmentOnly ==
    searchPc = "compiled"
    => \A i \in DOMAIN searchArgs.args :
          LET arguments == searchArgs.args
              arg == arguments[i]
              before == SubSeq(arguments, 1, i - 1)
              behind == SubSeq(arguments, i + 1, Len(arguments))
              plain == keyFragment(arg)[1]
              own == IF EmitsNothing(arg) THEN <<>>
                     ELSE IF plain # <<>> /\ Head(plain) = "-" THEN Tail(plain)
                     ELSE <<"-">> \o plain
              parts == SelectSeq(<<Fragments(before), own, Fragments(behind)>>,
                                 LAMBDA f : f # <<>>)
          IN  (/\ arg.not /\ ~arg.group /\ ~arg.or
               /\ ~parseSearchLoop([arguments EXCEPT ![i].not = FALSE], <<>>).panic
               /\ ~parseSearchLoop(before, <<>>).panic
               /\ ~parseSearchLoop(behind, <<>>).panic)
              => (/\ ~searchQuery.panic
                  /\ searchQuery.queryString
                       = queryString(<<"(">>
                                     \o joinQueries(IF parts = <<>> THEN <<<<"*">>>>
                                                    ELSE parts, " ")
                                     \o <<")">>))


\* fragments joined by single spaces
RECURSIVE Spaced(_)
Spaced(fragments) ==
    IF fragments = <<>> THEN <<>>
    ELSE IF Len(fragments) = 1 THEN fragments[1]
    ELSE fragments[1] \o <<" ">> \o Spaced(Tail(fragments))

\* compilation by the structure of the tree: a list is its arguments'
\* fragments joined by spaces inside parentheses, '(*)' when there is none;
\* an OR is its two children, each compiled as a list of its own, with OR
\* between them; a group is its children compiled as a list, without the
\* parentheses when it has one child; NOT toggles the '-' of the fragment
RECURSIVE CompiledByStructure(_)
CompiledByStructure(arguments) ==
    LET RECURSIVE fragmentsOf(_)
        fragmentsOf(rest) ==
            IF rest = <<>> THEN <<>>
            ELSE
            LET arg == Head(rest)
                children == CompiledByStructure(arg.children)
                plain ==
                    IF arg.or
                    THEN <<CompiledByStructure(<<arg.children[1]>>) \o <<" OR ">>
                           \o CompiledByStructure(<<arg.children[2]>>)>>
                    ELSE IF arg.group
                    THEN <<IF Len(arg.children) = 1
                           THEN SubSeq(children, 2, Len(children) - 1)
                           ELSE children>>
                    ELSE IF EmitsNothing(arg) THEN <<>>
                    ELSE keyFragment(arg)
                own == IF plain = <<>> \/ ~arg.not THEN plain
                       ELSE IF Head(plain[1]) = "-" THEN <<Tail(plain[1])>>
                       ELSE <<<<"-">> \o plain[1]>>
            IN  own \o fragmentsOf(Tail(rest))
        fragments == fragmentsOf(arguments)
    IN  <<"(">> \o (IF fragments = <<>> THEN <<"*">> ELSE Spaced(fragments)) \o <<")">>

\* the arguments the structure gives a meaning to: an OR has its two
\* children, and an argument with the NOT flag emits a fragment that is not
\* empty
RECURSIVE Compilable(_)
Compilable(arguments) ==
    \A i \in DOMAIN arguments :
        LET arg == arguments[i]
        IN  /\ arg.or => Len(arg.children) = 2
            /\ (arg.not /\ ~arg.or /\ ~arg.group)
               => (keyFragment(arg) # <<>> /\ keyFragment(arg)[1] # <<>>)
            /\ Compilable(arg.children)

\* C22: compilation follows the tree: an OR with children a and b compiles to
\* 'compile(a) OR compile(b)', each side in its own parentheses; a group
\* compiles to its children's fragments joined by spaces inside parentheses,
\* a single-child group without them; a list that emits no fragment compiles
\* to '(*)'.
C22_CompilationFollowsTree ==
    (searchPc = "compiled" /\ Compilable(searchArgs.args))
    => (/\ ~searchQuery.panic
        /\ searchQuery.queryString = queryString(CompiledByStructure(searchArgs.args)))

C22_Witness ==
    /\ searchPc = "compiled"
    /\ searchLine = <<"OR", "DELETED", "(", "OR", "SUBJECT", "subject",
                      "FROM", "a@b.com", ")">>
    /\ searchQuery.queryString
         = "((tag:deleted) OR ((subject:\"subject\") OR (from:a@b.com)))"


---------------------------------------------------------------------------
(* Properties of the lexer *)

\* the first index of character c in a line, 0 if it is not there
IndexOf(chars, c) ==
    IF \E i \in DOMAIN chars : chars[i] = c
    THEN CHOOSE i \in DOMAIN chars : chars[i] = c /\ \A j \in 1..(i - 1) : chars[j] # c
    ELSE 0

\* C23: for every input that fetchArguments accepts, a BODY or BODY.PEEK
\* argument with a section and no partial range has offset = -1, and one with
\* a partial range has offset >= 0 and a length that is unset (offset alone)
\* or > 0; so no range with a negative offset, a negative length or length 0
\* is accepted.
C23_SectionOffsetAndLength ==
    (lexPc = "lexed" /\ lexIn.kind = "fetch" /\ ~lexOut.fetch.err)
    => \A i \in DOMAIN lexOut.fetch.args :
          LET arg == lexOut.fetch.args[i]
              bracket == IndexOf(lexIn.stream, "]")
              ranged == /\ bracket > 0
                        /\ bracket < Len(lexIn.stream)
                        /\ lexIn.stream[bracket + 1] = "<"
              behind == SubSeq(lexIn.stream, bracket + 1, Len(lexIn.stream))
          IN  (arg.text \in {"BODY", "BODY.PEEK"} /\ IndexOf(lexIn.stream, "[") > 0)
              => IF ~ranged THEN arg.offset = -1
                 ELSE /\ arg.offset >= 0
                      /\ IF IndexOf(behind, ".") > 0 THEN arg.length > 0
                         ELSE arg.length = 0

\* the characters are a dot-separated sequence of positive decimal integers
IsSectionPart(chars) ==
    /\ chars # <<>>
    /\ \A i \in DOMAIN chars : isDigit(chars[i]) \/ chars[i] = "."
    /\ \A i \in DOMAIN splitChars(chars, ".") :
          LET piece == splitChars(chars, ".")[i]
          IN  piece # <<>> /\ piece[1] # "0"

\* C24: every dot-separated sequence of positive decimal integers is accepted
\* as the section-part of BODY[...] and parsed to the same integers, the
\* digits 0 and 9 included.
C24_SectionPartsAccepted ==
    LET stream == lexIn.stream
        chars == SubSeq(stream, 5, Len(stream) - 1)
        pieces == splitChars(chars, ".")
    IN  (/\ lexPc = "lexed" /\ lexIn.kind = "fetch"
         /\ Len(stream) > 5 /\ stream[4] = "[" /\ stream[Len(stream)] = "]"
         /\ IsSectionPart(chars))
        => (/\ ~lexOut.fetch.err
            /\ lexOut.fetch.args[1].part = [i \in DOMAIN pieces |-> strconvAtoi(pieces[i]).n])

\* C25: lexing '{n}' CRLF, n bytes (line breaks among them) and a tail
\* returns those n bytes and leaves the lexer at the start of the tail, whose
\* first token is the next token read; with fewer than n bytes, and nothing
\* behind them, the result is an error.
C25_LiteralAndRest ==
    (lexPc = "lexed" /\ lexIn.kind = "literal")
    => IF Len(lexIn.bytes) = lexIn.n
       THEN /\ lexOut.first.ok
            /\ ~lexOut.first.panic
            /\ lexOut.first.value = lexIn.bytes
            /\ lexOut.l.line = ReadLineBytes(lexIn.tail).line
            /\ lexOut.l.idx = 1
            /\ lexOut.l.stream = ReadLineBytes(lexIn.tail).rest
            /\ lexOut.second.ok = (lexIn.token # <<>>)
            /\ lexOut.second.value = lexIn.token
       ELSE (Len(lexIn.bytes) < lexIn.n /\ lexIn.tail = <<>>) => ~lexOut.first.ok

C25_Witness ==
    /\ lexPc = "lexed"
    /\ lexIn.kind = "literal"
    /\ lexIn.n = 3
    /\ lexIn.bytes = <<"a", lf, "a">>
    /\ lexOut.first.value = <<"a", lf, "a">>
    /\ lexOut.second.value = <<"a", "b">>
    /\ lexOut.l.stream = <<"c", "d", cr, lf>>

\* C26: listStrings accepts every balanced parenthesized list of
\* space-separated atoms and nested lists on one line, and its elements
\* mirror the nesting, also when the last item of a list is a list; it
\* returns false for a line that does not start with '(' or whose list is
\* not closed before the end of the line.
C26_ListStringsMirrorNesting ==
    (lexPc = "lexed" /\ lexIn.kind = "list")
    => IF lexIn.tree # <<>>
       THEN lexOut.list.ok /\ lexOut.list.elements = lexIn.tree
       ELSE ~lexOut.list.ok


---------------------------------------------------------------------------
(* Properties of the sequence-set evaluator and of Flag *)

\* the list is strictly increasing
StrictlyIncreasing(list) == \A i \in 1..(Len(list) - 1) : list[i] < list[i + 1]

\* the integers between the endpoints of a part, '*' standing for max,
\* whatever the order of the endpoints
Between(part, max) ==
    LET lo == IF part.lo = Star THEN max ELSE part.lo
        hi == IF part.hi = Star THEN max ELSE part.hi
    IN  IF lo <= hi THEN lo..hi ELSE hi..lo

\* C27 as claimed: the list is strictly increasing, without duplicates, and
\* holds exactly the integers between the endpoints of every part, '*'
\* standing for the maximum.
C27_EveryRangeContributes ==
    seqOut.evaluated
    => (/\ StrictlyIncreasing(seqOut.list)
        /\ {seqOut.list[i] : i \in DOMAIN seqOut.list}
             = UNION {Between(seqIn.set[i], seqIn.max) : i \in DOMAIN seqIn.set})

\* C27: evaluating a sequence set against a maximum M gives a strictly
\* increasing list without duplicates in which '*' stands for M and a range
\* contributes every integer between its endpoints, whatever their order,
\* unless both endpoints are above M, when it contributes nothing, or one is
\* M and the other above M, when it contributes M alone; the list holds
\* nothing else.
C27_SequenceSetEvaluation ==
    seqOut.evaluated
    => LET list == seqOut.list
           M == seqIn.max
           elements == {list[i] : i \in DOMAIN list}
           above(part) == Between(part, M) \cap (0..M) = {}
           atMaximum(part) == Between(part, M) \cap (0..M) = {M} /\ Between(part, M) # {M}
       IN  /\ StrictlyIncreasing(list)
           /\ \A i \in DOMAIN seqIn.set :
                 LET part == seqIn.set[i]
                 IN  /\ (part.range /\ atMaximum(part)) => M \in elements
                     /\ ~(part.range /\ (above(part) \/ atMaximum(part)))
                        => Between(part, M) \subseteq elements
           /\ \A n \in elements :
                 \E i \in DOMAIN seqIn.set :
                    LET part == seqIn.set[i]
                    IN  /\ n \in Between(part, M)
                        /\ (part.range /\ atMaximum(part)) => n = M
                        /\ ~(part.range /\ above(part))

C27_Witness ==
    /\ seqOut.evaluated
    /\ seqIn.set = <<[range |-> TRUE, lo |-> 2, hi |-> Star],
                     [range |-> TRUE, lo |-> 6, hi |-> 4]>>
    /\ seqIn.max = 7
    /\ seqOut.list = <<2, 3, 4, 5, 6, 7>>



\* C28: for every sequence set and every mailbox size, Flag either tags the
\* addressed messages or returns an error value; a sequence number or UID
\* outside the known messages (0, or above the number of messages, or one
\* past the last entry of the UID slice) never causes an out-of-range access.
C28_FlagNeverOutOfRange ==
    lastFlag.outcome # "panic"

\* Flag of numbers among the known messages, with the UID slice at hand,
\* tags or returns an error value
FlagInsideKnownMessages ==
    lastFlag.known => lastFlag.outcome \in {"tagged", "error"}


\* C29: at no time is a mutating subprocess (started by rawWrite and not yet
\* ended) in flight together with any other subprocess, read or mutating,
\* of any session.
C29_MutatingSubprocessAlone ==
    \A p \in inFlight : p.kind = "write" => inFlight = {p}

\* the subprocesses whose Close waits for them: a mutating one is alone
\* among them
WaitedMutatingSubprocessAlone ==
    \A p \in inFlight :
       (p.kind = "write" /\ p.waited) => \A q \in inFlight : q = p \/ ~q.waited

\* several read subprocesses are in flight at the same time
ReadsTogether ==
    \E p \in inFlight, q \in inFlight : p # q /\ p.kind = "read" /\ q.kind = "read"

\* C30: once a mutating call has released the exclusive lock, no session
\* obtains a uid-to-mid or mid-to-uid map that was built before that
\* mutation.
C30_NoMapFromBeforeMutation ==
    obtained.some => obtained.built >= obtained.released


\* the sessions' calls of the mailstore, every call going on when it can:
\* the steps of a call that no lock holds up are taken (the subprocesses end
\* and the goroutines run), and a step that waits for nm.l or nm.cache is
\* taken if the lock is free again and again (sync.RWMutex hands a lock to
\* who waits for it)
Returning ==
    /\ \A s \in Sessions : SF_vars(returns(s))
    /\ WF_vars(subprocessExits)

SpecBackendReturns == InitBackend /\ [][BackendNext]_vars /\ Returning

\* nm.l is held by the calls that are running a subprocess, and by no other
LocksHeldByCalls ==
    /\ rwmutex.writer # Nobody => backendPc[rwmutex.writer] = "writing"
    /\ rwmutex.readers = Cardinality({s \in Sessions : backendPc[s] = "reading"})

\* C31: with sessions concurrently issuing read calls and mutating calls,
\* and every subprocess terminating, no reachable state is a deadlock:
\* every call eventually returns.
C31_EveryCallReturns ==
    \A s \in Sessions : (backendPc[s] # "idle") ~> (backendPc[s] = "idle")

\* as long as nm.l is held by running calls only, every call returns
EveryCallReturnsUnlessLeaked ==
    ([]LocksHeldByCalls) => C31_EveryCallReturns

\* C33: once a mutating call has completed and every call has returned, the
\* threads kept in the cache were computed from the database after that
\* mutation.
C33_ThreadsCacheAfterMutation ==
    ((\A s \in Sessions : backendPc[s] = "idle") /\ caches["threads"] # Nil)
    => caches["threads"] = version

\* C34: every acquisition of nm.l is released on every path: the lock is
\* held only while a call is running its subprocess.
C34_BackendLockReleased ==
    LocksHeldByCalls


\* C32: a uid-to-mid slice populated from the listing m1..mN (oldest first)
\* has N+1 entries, entry 0 is the empty message id and entry i is mi, and
\* the mid-to-uid map built from the same listing maps mi to i.
C32_UidMapsFromListing ==
    LET mids == oldestFirst(db)
    IN  /\ ~uidToMidMap.nil
           => /\ DOMAIN uidToMidMap.m = 0..Len(mids)
              /\ uidToMidMap.m[0] = 0
              /\ \A i \in 1..Len(mids) : uidToMidMap.m[i] = mids[i]
        /\ ~midToUidMap.nil
           => /\ DOMAIN midToUidMap.m = {mids[i] : i \in 1..Len(mids)}
              /\ \A i \in 1..Len(mids) : midToUidMap.m[mids[i]] = i

\* the same without the entry 0 of the slice
UidMapsFromListingAboveZero ==
    LET mids == oldestFirst(db)
    IN  /\ ~uidToMidMap.nil
           => /\ DOMAIN uidToMidMap.m = 0..Len(mids)
              /\ \A i \in 1..Len(mids) : uidToMidMap.m[i] = mids[i]
        /\ ~midToUidMap.nil
           => /\ DOMAIN midToUidMap.m = {mids[i] : i \in 1..Len(mids)}
              /\ \A i \in 1..Len(mids) : midToUidMap.m[mids[i]] = i


\* C35: on a StartTls listener, while the session's encryption is not Tls
\* (when CAPABILITY advertises LOGINDISABLED), no LOGIN moves the session to
\* Authenticated, whatever the credentials.
C35_NoLoginBeforeTls ==
    (listener = starttlsLevel /\ encryption # tlsLevel) => st = notAuthenticated


\* C36: at every moment the connections the server is handling are at most
\* config.maxClients: a connection accepted while that many sessions are
\* active is given no handler.
C36_AtMostMaxClients ==
    Cardinality(handling) <= maxClients


\* C37: NOOP, CHECK, CAPABILITY, STATUS, LIST and unknown commands leave the
\* session's state, selected mailbox and encryption level as they were,
\* whatever their outcome.
C37_QueriesKeepSession ==
    [][(\/ Executing("NOOP") \/ Executing("CHECK") \/ Executing("CAPABILITY")
        \/ Executing("STATUS") \/ Executing("LIST") \/ Executing("UNKNOWN"))
       => (st' = st /\ mailbox' = mailbox /\ encryption' = encryption)]_vars

\* a STATUS of an existing mailbox was answered OK in state Authenticated
C37_Witness ==
    /\ command.kind = "STATUS"
    /\ pc = "next"
    /\ st = authenticated
    /\ response.message = "STATUS completed"


\* C38: UID FETCH with the sequence set '*' returns the message with the
\* largest UID when the store holds a message: '*' resolves to the largest
\* UID assigned, not to the length of the UID slice with its entry 0.
C38_UidFetchStarReturnsLargest ==
    (lastFetch.star /\ lastFetch.outcome = "ok" /\ SliceLen(uidToMidMap) >= 2)
    => lastFetch.mids = {uidToMidMap.m[SliceLen(uidToMidMap) - 1]}

\* a UID FETCH of '*' returns no message the store lacks
UidFetchStarReturnsNoStranger ==
    lastFetch.star => lastFetch.mids \subseteq db


\* the path a LIST looks up: the reference and then the pattern
ListPath(c) == pathToSlice(c.args[1]) \o pathToSlice(c.args[2])

\* C39: a LIST whose pattern has no wildcard and names a mailbox the store
\* lacks (GetMailbox returns nil without an error) is answered NO 'LIST no
\* results': the nil mailbox is not put in the result list and is not
\* dereferenced.
C39_ListOfMissingMailbox ==
    [][(/\ Executing("LIST")
        /\ st >= authenticated
        /\ command.args[2] # <<>>
        /\ FirstWildcard(pathToSlice(command.args[2])) = 0
        /\ ~Errored(calls')
        /\ GetMailbox(ListPath(command), {}).mbox.nil)
       => (/\ pc' # "panicked"
           /\ response' = no(command.tag, "LIST no results"))]_vars

\* the LIST of a command recurses without end
ListEndless(c, s, failing) ==
    /\ s.st >= authenticated
    /\ c.args[2] # <<>>
    /\ sessionList(pathToSlice(c.args[1]), pathToSlice(c.args[2]), failing).endless

\* C40: LIST terminates: depthFirstMailboxes makes finitely many recursive
\* calls, also for a pattern with a name after a wildcard ('%/foo') and for
\* '*'; no LIST fails to return because its recursion has no end.
C40_ListTerminates ==
    [][(Executing("LIST") /\ pc' = "panicked")
       => \E failing \in Failures :
             /\ calls' = Recorded(listExecute(command, Session, failing), failing).calls
             /\ ~ListEndless(command, Session, failing)]_vars

\* a LIST whose pattern is made of wildcards only returns
ListOfWildcardsReturns ==
    [][(/\ Executing("LIST")
        /\ \A i \in DOMAIN pathToSlice(command.args[2]) :
              IsWildcard(pathToSlice(command.args[2])[i]))
       => pc' # "panicked"]_vars

=============================================================================
